---- MODULE Spec2Model ----
(***************************************************************************)
(* The interaction scripting engine of the valentine game: the dialogue    *)
(* runner (systems/DialogueBox.js), the shared session store               *)
(* (systems/GameState.js) and the tiled-interaction runner of              *)
(* BaseExploreScene (scenes/BaseExploreScene.js).                          *)
(*                                                                         *)
(* Every handler of the program is a pure operator from a world record W   *)
(* (the clock, the pending timers, the DialogueBox object, GameState, the  *)
(* scene object and an observer record) to the world after the handler     *)
(* returned; an action of the state machine applies one handler.           *)
(*                                                                         *)
(* Time.  The program reads the clock (scene.time.now) only to compare it  *)
(* with a stored time stamp or to store now + ms, so a state is fixed by   *)
(* the differences between its time stamps and the clock.  The model keeps *)
(* every time stamp relative to the current frame: a handler runs with     *)
(* W.now = 0, and a frame of d ms (Elapse) lowers every stored time stamp  *)
(* by d; a time stamp that has passed stays at 0, which compares with the  *)
(* clock exactly as the passed time stamp does.                            *)
(* A text is modelled by its length: the runner never inspects more.       *)
(***************************************************************************)
EXTENDS Integers, Sequences, FiniteSets, TLC

VARIABLES
  timers,     \* pending scene.time.delayedCall events, in creation order
  dialogue,   \* the DialogueBox object
  GameState,  \* the shared session store
  scene,      \* the BaseExploreScene object
  hist        \* observer: what happened so far (not program state)

vars == <<timers, dialogue, GameState, scene, hist>>

-----------------------------------------------------------------------------
(* Bounds of the model *)

StepMs == 250     \* the longest frame: the clock advances by at most this in one step
MaxRuns == 2      \* start() calls explored by the DialogueBox specification
MaxPresses == 3   \* interact presses explored by the scene specification
MaxEntries == 1   \* scene re-entries explored by the scene specification
MaxCount == 2     \* the largest count handed to addItem / removeItem
MaxHeld == 3      \* the inventory specification adds no item beyond this count
MaxApplied == 2   \* times the inventory specification applies an interaction's effects
MaxGuards == 2    \* once flags set by the flag-key specification
MaxLines == 4     \* the highest numbered key of a property table of the collector specification
MaxMoves == 5     \* frames with movement explored by the deny-zone specification

(* Program constants *)

typingSpeedMs == 18
choiceConfirmDelayMs == 250
inputCooldownMs == 500
choiceMoveCooldownMs == 120
stopLockMs == 240
defaultPauseMs == 400

-----------------------------------------------------------------------------
(* Generic helpers *)

Max(a, b) == IF a >= b THEN a ELSE b
Min(a, b) == IF a <= b THEN a ELSE b
SetMin(S) == CHOOSE x \in S : \A y \in S : x <= y

EmptyMap == [k \in {} |-> 0]
Has(m, k) == k \in DOMAIN m
Put(m, k, v) == [x \in (DOMAIN m) \cup {k} |-> IF x = k THEN v ELSE m[x]]
RemoveAt(s, k) == [i \in 1..(Len(s) - 1) |-> IF i < k THEN s[i] ELSE s[i + 1]]

-----------------------------------------------------------------------------
(* Script steps (the DialogueStep tagged union) *)

Say(len) == [type |-> "say", text |-> len]
Pause(ms) == [type |-> "pause", ms |-> ms]
Choice(len, options) == [type |-> "choice", prompt |-> len, options |-> options]
\* a choice step with an onSelect of its own
ChoiceWith(len, options, onSelect) ==
  [type |-> "choice", prompt |-> len, options |-> options, onSelect |-> onSelect]
ActionStep(run) == [type |-> "action", run |-> run]
EndStep == [type |-> "end"]
\* an option whose `next` is a number / is not a number
OptNext(n, onSelect) == [hasNext |-> TRUE, next |-> n, onSelect |-> onSelect]
OptFall(onSelect) == [hasNext |-> FALSE, next |-> 0, onSelect |-> onSelect]

NoSelect == [kind |-> "none", id |-> "", i |-> 0]
NullCb == [kind |-> "null", run |-> 0, id |-> "", apply |-> FALSE, duck |-> FALSE]
NoEvent == [on |-> FALSE, at |-> 0, i |-> 0, kind |-> "", options |-> <<>>]

NoChosen ==
  [valid |-> FALSE, option |-> OptFall(NoSelect), choiceAt |-> 0, indexBefore |-> 0,
   onSelectAt |-> -1, resumedAt |-> -1]

\* observer: what happened in the current run of the runner
Hist0 ==
  [ run |-> 0,               \* start() calls so far: the id of the current run
    withCb |-> FALSE,        \* the run was started with an onComplete
    completed |-> 0,         \* times the run's onComplete was invoked
    foreign |-> FALSE,       \* an onComplete of another run was invoked
    endReached |-> FALSE,    \* the run reached an end step or ran off the script
    lastStopAt |-> -stopLockMs,  \* time stamp of the last stop()
    tracked |-> {},          \* sounds registered through trackSound, in any run
    cooldownUntil |-> 0,     \* when the cooldown of the last accepted input elapses
    early |-> {},            \* kinds of input accepted before that
    lastZ |-> "", prevZ |-> "",   \* what the last two accepted confirms did
    choiceAt |-> 0,          \* index of the choice step last run
    lastChosen |-> NoChosen, \* the last option selected by a confirm
    exc |-> FALSE,           \* an exception was thrown and no handler has caught it yet
    caught |-> FALSE,        \* a catch block of the runner ran in this run
    forced |-> EmptyMap,     \* "scene__id" -> what the last effect that forced the
                             \* interaction did: "disabled" or "enabled"
    zoneGen |-> EmptyMap,    \* zone id -> sound handles created so far for the audio of
                             \* the zone (counted for the zones that fade out)
    selOwn |-> FALSE,        \* the selection held in _pendingChoiceEffect was made in this run
    choiceFx |-> [on |-> FALSE, id |-> "", i |-> 0, own |-> FALSE],
                             \* the choice effects applied in this run: of which option,
                             \* and whether it was selected in this run
    once |-> EmptyMap,       \* guard key -> times the guarded effect was applied
    blocked |-> {},          \* guard keys that have stopped a further application
    applied |-> EmptyMap,    \* interaction id -> times its effects were applied
    presses |-> 0,           \* interact presses so far
    pressed |-> FALSE,       \* the interact press of this frame was consumed
    entries |-> 0,           \* scene re-entries so far
    clamped |-> {},          \* items of which more was removed than was held
    guards |-> {},           \* the (codec, category, parts) whose once flag was set
    collected |-> [by |-> "", out |-> <<>>], \* what a numbered-key collector returned
    started |-> [id |-> "", mode |-> "", prefix |-> "", visit |-> 0, press |-> 0,
                 says |-> <<>>],
                             \* the last script an interaction handed to the runner
    moves |-> 0,             \* frames with movement so far
    entered |-> EmptyMap,    \* zone id -> the layers and the hidden record at its last entry
    deny |-> [entries |-> 0, zone |-> "", events |-> 0, suppressed |-> 0, lastDenied |-> FALSE,
              any |-> FALSE, lastAt |-> 0, window |-> 0]
                             \* entries into deny zones, those given feedback and those
                             \* not, the time of the last feedback and its cooldown
  ]

\* what is known of the session when a run starts: the observations of a run start afresh
NewRun(h, run, withCb) ==
  [h EXCEPT !.run = run, !.withCb = withCb, !.completed = 0, !.foreign = FALSE,
            !.endReached = FALSE, !.early = {}, !.lastZ = "", !.prevZ = "",
            !.choiceAt = 0, !.lastChosen = NoChosen, !.caught = FALSE,
            !.selOwn = FALSE, !.choiceFx = Hist0.choiceFx]

-----------------------------------------------------------------------------
(* systems/GameState.js *)

GameState0 ==
  [ score |-> 0,
    helpScore |-> 0,
    realTimeMs |-> 0,
    input |-> [interactLockUntil |-> 0],
    inventory |-> EmptyMap,
    interactions |-> [counts |-> EmptyMap, disabled |-> EmptyMap, choices |-> EmptyMap],
    hiddenLayers |-> EmptyMap,
    flags |-> EmptyMap,
    npcPos |-> EmptyMap,      \* the flags __npc_pos__<scene>__<id>, whose values are positions
    npcsHelped |-> EmptyMap ]

lockInteract(W, ms) ==
  [W EXCEPT !.GameState.input.interactLockUntil = Max(@, W.now + ms)]

canWorldInteract(W) == W.now >= W.GameState.input.interactLockUntil

Count(m, k) == IF Has(m, k) THEN m[k] ELSE 0

addItem(W, item, count) ==
  IF item = "" THEN W
  ELSE [W EXCEPT !.GameState.inventory = Put(@, item, Count(@, item) + count)]

\* a variant of removeItem that subtracts without the Math.max(0, ...)
removeItem_unclamped(W, item, count) ==
  IF item = "" THEN W
  ELSE [W EXCEPT !.GameState.inventory = Put(@, item, Count(@, item) - count),
                 !.hist.clamped = IF Count(W.GameState.inventory, item) < count
                                    THEN @ \cup {item} ELSE @]

removeItem(W, item, count) ==
  IF item = "" THEN W
  ELSE [W EXCEPT !.GameState.inventory = Put(@, item, Max(0, Count(@, item) - count)),
                 !.hist.clamped = IF Count(W.GameState.inventory, item) < count
                                    THEN @ \cup {item} ELSE @]

hasItem(W, item) == item # "" /\ Count(W.GameState.inventory, item) >= 1

incrementInteractionCount(W, id) ==
  IF id = "" THEN W
  ELSE [W EXCEPT !.GameState.interactions.counts = Put(@, id, Count(@, id) + 1)]

disableInteraction(W, id) ==
  IF id = "" THEN W
  ELSE [W EXCEPT !.GameState.interactions.disabled = Put(@, id, TRUE)]

isInteractionDisabled(W, id) ==
  id # "" /\ Has(W.GameState.interactions.disabled, id)
          /\ W.GameState.interactions.disabled[id] = TRUE

setLayerHidden(W, sceneKey, layerName, hidden) ==
  IF sceneKey = "" \/ layerName = "" THEN W
  ELSE [W EXCEPT !.GameState.hiddenLayers =
          Put(@, sceneKey, Put(IF Has(@, sceneKey) THEN @[sceneKey] ELSE EmptyMap,
                               layerName, hidden))]

isLayerHidden(W, sceneKey, layerName) ==
  /\ sceneKey # "" /\ layerName # ""
  /\ Has(W.GameState.hiddenLayers, sceneKey)
  /\ Has(W.GameState.hiddenLayers[sceneKey], layerName)
  /\ W.GameState.hiddenLayers[sceneKey][layerName] = TRUE

addHelp(W, n) == [W EXCEPT !.GameState.helpScore = @ + n]

addScore(W, n) == [W EXCEPT !.GameState.score = @ + n]

markHelped(W, npcName, value) ==
  IF npcName = "" THEN W ELSE [W EXCEPT !.GameState.npcsHelped = Put(@, npcName, value)]

isHelped(W, npcName) ==
  Has(W.GameState.npcsHelped, npcName) /\ W.GameState.npcsHelped[npcName] = TRUE

-----------------------------------------------------------------------------
(* systems/TiledProps.js: the properties of a Tiled object.  parseProps gives *)
(* a table from lower-case property name to value; a text is held as its      *)
(* length and a comma separated list as the sequence of its trimmed pieces.   *)

Str(props, k) == IF Has(props, k) THEN props[k] ELSE ""
Num(props, k, default) == IF Has(props, k) THEN props[k] ELSE default
IsTrue(props, k) == Has(props, k) /\ props[k] = TRUE

splitCsv(v) == SelectSeq(v, LAMBDA piece : piece # "")

Csv(props, k) == splitCsv(IF Has(props, k) THEN props[k] ELSE <<>>)

clampInt(n, min, max) == Max(min, Min(max, n))

\* for (const x of list) W = Op(W, x)
ForEach(Op(_, _), W, list) ==
  LET f[i \in 0..Len(list)] == IF i = 0 THEN W ELSE Op(f[i - 1], list[i])
  IN f[Len(list)]

-----------------------------------------------------------------------------
(* scenes/BaseExploreScene.js: persistence helpers and interaction effects.   *)
(* The session modelled has no followers, no moving NPCs, no tile or collider *)
(* removal: the interactions below carry none of those properties.            *)

\* the interactables object layer of the scene's map
Interactions ==
  [ gift |-> [once |-> TRUE, presfx |-> "chime", presfxdelayms |-> 1000, dialogue |-> 1,
              giveitem |-> <<"rose">>],
    bush |-> [dialogue |-> 1, dialogueaddhelp |-> 5, dialoguegiveitem |-> "coin",
              dialoguegiveonce |-> TRUE, giveitem |-> <<"seed">>,
              giveitemonce |-> <<"berry">>, takeitemonce |-> <<"seed">>,
              setmusiconce |-> "tune", setmusicpersist |-> TRUE],
    npc  |-> [choiceprompt |-> 1, choice1text |-> 1, choice1helpscore |-> 10,
              choice2text |-> 1, choice2dialogue |-> 1, choice2hidelayer |-> <<"Fence">>,
              choice2enableinteractions |-> <<"gift">>],
    door |-> [dialogue |-> 1, npcid |-> "Glad", enabledifflags |-> <<"a">>,
              enabledifanyflags |-> <<"b", "c">>, disabledifflags |-> <<"d">>,
              requireschoiceid |-> "npc", requireschoicevalue |-> 2] ]

\* the interactables object layer of the map of a second level: a villager with
\* progressive post-help lines, the first of which carries a per-line sound,
\* and a troupe whose lines play as one sequence
ParkInteractions ==
  [ elder  |-> [dialogue |-> 4, markhelped |-> "Elder", postdialogue |-> 1,
                postdialoguesfx |-> "ding", postdialogue2 |-> 2, postdialogue3 |-> 3],
    troupe |-> [sequencedialogue |-> TRUE, presfx |-> "drum", presfxdelayms |-> 300,
                dialogue |-> 1, dialogue2 |-> 2] ]

\* the interactables object layer of the map of a third level: a sage whose
\* post-help line has variants by the choice taken and by the companions present
\* (choice 1 has no post-help group of its own; each text is a different length)
PlazaInteractions ==
  [ sage |-> [dialogue |-> 1, markhelped |-> "Sage",
              postdialogue |-> 1,
              sagafollowerpostdialogue |-> 2,
              aloisefollowerpostdialogue |-> 3,
              choice2postdialogue |-> 4,
              bothfollowerschoice2postdialogue |-> 5,
              sagafollowerchoice2postdialogue |-> 6] ]

\* the interactables object layer of the map of a fourth level: two deny zones
\* that overlap, a fence with the default cooldown and a pit without dialogue.
\* x, y, width and height are the rectangle of the Tiled object.
HarborInteractions ==
  [ fence |-> [x |-> 12, y |-> 0, width |-> 8, height |-> 8,
               deny |-> TRUE, denysfx |-> "buzz", denyshakems |-> 100, denydialogue |-> 3],
    pit   |-> [x |-> 6, y |-> 0, width |-> 8, height |-> 8,
               deny |-> TRUE, denycooldownms |-> 1000, denydialogue |-> 0] ]

\* the interactables object layer of the map of a fifth level: a ledge that
\* pushes the player away, without dialogue
CliffInteractions ==
  [ ledge |-> [x |-> 16, y |-> 16, width |-> 8, height |-> 8,
               deny |-> TRUE, denymode |-> "push", denypush |-> 12, denydialogue |-> 0] ]

\* the interactables object layer of the map of a sixth level: a cave whose
\* zone hides the roof and shows the inside, a lever that does the reverse, and
\* a guide whose only answer hides the roof
CaveInteractions ==
  [ cave  |-> [x |-> 10, y |-> 0, width |-> 8, height |-> 8,
               zonesfx |-> "drip", zoneduckmusic |-> TRUE,
               hidelayers |-> <<"Roof">>, showlayers |-> <<"Inside">>],
    lever |-> [nodialogue |-> TRUE, dialogue |-> 1,
               showlayer |-> <<"Roof">>, hidelayer |-> <<"Inside">>,
               removecollider |-> <<"rock", "ghost">>],
    guide |-> [choiceprompt |-> 1, choice1text |-> 1, choice1hidelayer |-> <<"Roof">>,
               choice1removecollider |-> <<"gate">>] ]

\* the interactables object layer of the map of a seventh level: an organ that
\* sets a track and persists it, a radio that sets a track, a bell that sets a
\* track once and a switch that clears the persisted track
HallInteractions ==
  [ organ |-> [nodialogue |-> TRUE, dialogue |-> 1,
               setmusic |-> "hymn", setmusicpersist |-> TRUE],
    radio |-> [nodialogue |-> TRUE, dialogue |-> 1, setmusic |-> "jazz"],
    bell  |-> [nodialogue |-> TRUE, dialogue |-> 1, setmusiconce |-> "chime"],
    mute  |-> [nodialogue |-> TRUE, dialogue |-> 1, clearmusicpersist |-> TRUE] ]

\* the interactables object layer of the map of an eighth level: an arch that
\* fires once, hides the roof while the actor is under it and hums; a bar that
\* denies once; an alarm that fires while the flag "armed" is set
TunnelInteractions ==
  [ arch  |-> [x |-> 10, y |-> 0, width |-> 8, height |-> 8,
               trigger |-> TRUE, triggeronce |-> TRUE, nodialogue |-> TRUE, dialogue |-> 1,
               giveitem |-> <<"ticket">>, zonesfx |-> "hum",
               hidelayers |-> <<"Roof">>, exitshowlayers |-> <<"Roof">>],
    bar   |-> [x |-> 20, y |-> 0, width |-> 8, height |-> 8,
               deny |-> TRUE, once |-> TRUE, denydialogue |-> 2],
    alarm |-> [x |-> 30, y |-> 0, width |-> 8, height |-> 8,
               trigger |-> TRUE, nodialogue |-> TRUE, dialogue |-> 1,
               enabledifflags |-> <<"armed">>, giveitem |-> <<"fine">>] ]

\* the interactables object layer of the map of a ninth level: a vault that
\* asks for the key and uses it up, a chest that holds the key, and a purse
VaultInteractions ==
  [ vault |-> [requiresitem |-> <<"key">>, denydialogue |-> 3, dialogue |-> 1,
               takeitem |-> <<"key">>],
    chest |-> [nodialogue |-> TRUE, dialogue |-> 1, giveitem |-> <<"key">>],
    purse |-> [nodialogue |-> TRUE, dialogue |-> 1, giveitem |-> <<"coin">>,
               addscore |-> 5] ]

\* the interactables object layer of the map of a tenth level, where music plays:
\* a singer and a host (who asks a question) that duck the music while they
\* talk, and a drummer that mutes it and starts after a drum roll
StageInteractions ==
  [ singer  |-> [dialogue |-> 1, duckmusic |-> TRUE, duckmusicfactor |-> 30],
    host    |-> [choiceprompt |-> 1, choice1text |-> 1, duckmusic |-> TRUE,
                 duckmusicfactor |-> 50],
    drummer |-> [presfx |-> "drum", presfxdelayms |-> 500, dialogue |-> 1,
                 mutemusic |-> TRUE] ]

\* the interactables object layer of the map of an eleventh level: a choir zone
\* whose chant fades out over 400 ms and a font zone whose sound stops at once
ChapelInteractions ==
  [ choir |-> [x |-> 10, y |-> 0, width |-> 8, height |-> 8,
               zonemusic |-> "chant", zonefadeoutms |-> 400],
    font  |-> [x |-> 20, y |-> 0, width |-> 8, height |-> 8, zonesfx |-> "drops"] ]

\* the interactables object layer of the map of a twelfth level: a lock that
\* disables the lamp of this level and the organ of the seventh, a key that
\* enables them, a switch that does both to the lamp, and the lamp, which
\* disables itself
LobbyInteractions ==
  [ lock   |-> [nodialogue |-> TRUE, dialogue |-> 1,
                disableinteractions |-> <<"lamp", "HallScene:organ">>],
    key    |-> [nodialogue |-> TRUE, dialogue |-> 1,
                enableinteractions |-> <<"lamp", "HallScene|organ">>],
    switch |-> [nodialogue |-> TRUE, dialogue |-> 1,
                disableinteraction |-> <<"lamp">>,
                enableinteraction |-> <<"LobbyScene/lamp">>],
    lamp   |-> [nodialogue |-> TRUE, dialogue |-> 1, disableself |-> TRUE] ]

\* scene key -> the tile layers of its map, each with its properties.  Only the
\* sixth level has tile layers that effects name.
LevelLayers ==
  [CityScene |-> EmptyMap, ParkScene |-> EmptyMap, PlazaScene |-> EmptyMap,
   HarborScene |-> EmptyMap, CliffScene |-> EmptyMap, HallScene |-> EmptyMap,
   CaveScene |-> [Roof |-> EmptyMap, Inside |-> [starthidden |-> TRUE]],
   TunnelScene |-> [Roof |-> EmptyMap], VaultScene |-> EmptyMap,
   StageScene |-> EmptyMap, ChapelScene |-> EmptyMap,
   LobbyScene |-> EmptyMap]

\* scene key -> the objects of the collider layer of its map.  Only the sixth
\* level has colliders with an id: a rock, a gate and a rectangle without width.
LevelColliders ==
  [CityScene |-> <<>>, ParkScene |-> <<>>, PlazaScene |-> <<>>,
   HarborScene |-> <<>>, CliffScene |-> <<>>, HallScene |-> <<>>, TunnelScene |-> <<>>,
   VaultScene |-> <<>>, StageScene |-> <<>>, ChapelScene |-> <<>>,
   LobbyScene |-> <<>>,
   CaveScene |-> << [id |-> "rock", width |-> 8, height |-> 8],
                    [id |-> "gate", width |-> 8, height |-> 8],
                    [id |-> "sliver", width |-> 0, height |-> 8] >>]

\* scene key -> the object layer of its map
Levels ==
  [CityScene |-> Interactions, ParkScene |-> ParkInteractions,
   PlazaScene |-> PlazaInteractions, HarborScene |-> HarborInteractions,
   CliffScene |-> CliffInteractions, CaveScene |-> CaveInteractions,
   HallScene |-> HallInteractions, TunnelScene |-> TunnelInteractions,
   VaultScene |-> VaultInteractions, StageScene |-> StageInteractions,
   ChapelScene |-> ChapelInteractions, LobbyScene |-> LobbyInteractions]

\* scene key -> the objects of the layer in the order of the map file
LayerOrder ==
  [CityScene |-> <<"gift", "bush", "npc", "door">>, ParkScene |-> <<"elder", "troupe">>,
   PlazaScene |-> <<"sage">>, HarborScene |-> <<"pit", "fence">>,
   CliffScene |-> <<"ledge">>, CaveScene |-> <<"cave", "lever", "guide">>,
   HallScene |-> <<"organ", "radio", "bell", "mute">>,
   TunnelScene |-> <<"arch", "bar", "alarm">>, VaultScene |-> <<"vault", "chest", "purse">>,
   StageScene |-> <<"singer", "host", "drummer">>, ChapelScene |-> <<"choir", "font">>,
   LobbyScene |-> <<"lock", "key", "switch", "lamp">>]

InteractionIds == DOMAIN scene._props

\* parseProps(obj) of the object registered under id
PropsOf(id) == scene._props[id]

NoPending == [on |-> FALSE, id |-> "", i |-> 0]

Scene0 ==
  [ key |-> "CityScene",
    interactables |-> DOMAIN Interactions,
    _props |-> Interactions,         \* id -> the _props of the interactable built from the map
    playing |-> {},                  \* handles of scene.sound.add(key) that are playing
    oneShots |-> {},                 \* keys played through scene.sound.play(key)
    _pendingChoiceEffect |-> NoPending,
    _musicDuckStack |-> <<>>,
    _shakeEndAt |-> 0,
    _sceneMusicKey |-> "",
    npcs |-> [Glad |-> [x |-> 40, y |-> 20, vx |-> 0, vy |-> 0]],
                                     \* _spawnedNpcsById: id -> position and velocity (pixels
                                     \* per frame) of the sprite of the NPC
    _movingNpcById |-> EmptyMap,     \* id -> [points, idx, speed] of an NPC that walks a path
    _tiledObj |-> [properties |-> [kind |-> "undefined", items |-> <<>>]],
                                     \* the Tiled object being read
    parsed |-> EmptyMap,             \* parseProps(obj) of the object being read
    player |-> [x |-> 0, y |-> 0],
    _prevPlayerPos |-> [x |-> 0, y |-> 0],  \* the player's position at the start of the frame
    loopDelta |-> 0,                 \* game.loop.delta of the frame, in ms; only the
                                     \* specification of the clock gives frames a length
    layers |-> EmptyMap,             \* layer name -> the layer object is visible
    _colliderById |-> {},            \* the ids that _colliderById maps to a rectangle
    _zoneAudioById |-> EmptyMap,     \* zone id -> the key of its looping sound
    _duckReasons |-> EmptyMap,       \* reason id -> factor, in percent
    _triggerInside |-> {},
    _triggerExitArmed |-> {},
    _denyCooldownUntil |-> 0 ]

RECURSIVE JoinParts(_)
JoinParts(parts) ==
  IF Len(parts) = 0 THEN ""
  ELSE IF Len(parts) = 1 THEN parts[1]
  ELSE parts[1] \o "__" \o JoinParts(Tail(parts))

_flagKey(prefix, parts) == prefix \o "__" \o JoinParts(parts)

\* parts.filter(Boolean).join("|") of the level-scene helpers
RECURSIVE JoinBar(_)
JoinBar(parts) ==
  IF Len(parts) = 0 THEN ""
  ELSE IF Len(parts) = 1 THEN parts[1]
  ELSE parts[1] \o "|" \o JoinBar(Tail(parts))

flagKey(parts) == JoinBar(SelectSeq(parts, LAMBDA p : p # ""))

\* observers of the once-guards
OnceApplied(W, key) == [W EXCEPT !.hist.once = Put(@, key, Count(@, key) + 1)]
OnceBlocked(W, key) == [W EXCEPT !.hist.blocked = @ \cup {key}]

\* a variant of _getAnyFlag that never finds a flag set
_getAnyFlag_unset(W, key) == FALSE

\* GameState.flags[key]; a missing flag reads as FALSE (every caller tests === true)
_getAnyFlag(W, key) == IF Has(W.GameState.flags, key) THEN W.GameState.flags[key] ELSE FALSE

\* a variant of _setAnyFlag that stores nothing
_setAnyFlag_dropped(W, key, value) == W

_setAnyFlag(W, key, value) == [W EXCEPT !.GameState.flags = Put(@, key, value)]

_takeOnceFlag(sceneKey, id, item) == _flagKey("__take_once", <<sceneKey, id, item>>)

_interactionForceDisabledFlag(sceneKey, interactionId) ==
  _flagKey("__int_forced_disabled", <<sceneKey, interactionId>>)

_interactionForceEnabledFlag(sceneKey, interactionId) ==
  _flagKey("__int_forced_enabled", <<sceneKey, interactionId>>)

_isInteractionForcedDisabled(W, sceneKey, interactionId) ==
  _getAnyFlag(W, _interactionForceDisabledFlag(sceneKey, interactionId)) = TRUE

_isInteractionForcedEnabled(W, sceneKey, interactionId) ==
  _getAnyFlag(W, _interactionForceEnabledFlag(sceneKey, interactionId)) = TRUE

\* a variant of _setInteractionForcedDisabled that leaves the enabled flag alone
_setInteractionForcedDisabled_only(W, sceneKey, interactionId, disabled) ==
  _setAnyFlag(W, _interactionForceDisabledFlag(sceneKey, interactionId), disabled)

_setInteractionForcedDisabled(W, sceneKey, interactionId, disabled) ==
  LET disKey == _interactionForceDisabledFlag(sceneKey, interactionId)
      enKey == _interactionForceEnabledFlag(sceneKey, interactionId)
  IN IF disabled THEN _setAnyFlag(_setAnyFlag(W, disKey, TRUE), enKey, FALSE)
     ELSE _setAnyFlag(W, disKey, FALSE)

_setInteractionForcedEnabled(W, sceneKey, interactionId, enabled) ==
  LET enKey == _interactionForceEnabledFlag(sceneKey, interactionId)
      disKey == _interactionForceDisabledFlag(sceneKey, interactionId)
  IN IF enabled THEN _setAnyFlag(_setAnyFlag(W, enKey, TRUE), disKey, FALSE)
     ELSE _setAnyFlag(W, enKey, FALSE)

\* the separators of a target "scene:id"
TargetSeps == {":", "|", "/"}

\* the names that the targets of the levels are made of
TargetNames == {"LobbyScene", "HallScene", "lamp", "organ"}

\* a target is "id" or "scene:id" (also with | or /): the text before the first
\* separator is the scene and the rest the id, when both are non-empty; else
\* the whole text is the id in the default scene.  null is held as an empty id.
\* (The names of the levels hold no separator.)
_parseInteractionTarget(raw, defaultSceneKey) ==
  LET split == {t \in TargetNames \X TargetSeps \X TargetNames : raw = t[1] \o t[2] \o t[3]}
  IN IF raw = "" THEN [sceneKey |-> "", id |-> ""]
     ELSE IF split # {}
       THEN LET t == CHOOSE t \in split : TRUE IN [sceneKey |-> t[1], id |-> t[3]]
     ELSE [sceneKey |-> defaultSceneKey, id |-> raw]

\* the record of the last forcing effect on (sceneKey, id)
ForcedKey(sceneKey, id) == sceneKey \o "__" \o id

Forced(W, sceneKey, id, what) ==
  [W EXCEPT !.hist.forced = Put(@, ForcedKey(sceneKey, id), what)]

_setInteractionDisabled(W, id, disabled) ==
  IF id = "" THEN W
  ELSE IF disabled THEN [W EXCEPT !.GameState.interactions.disabled = Put(@, id, TRUE)]
  ELSE [W EXCEPT !.GameState.interactions.disabled =
          [x \in (DOMAIN @) \ {id} |-> @[x]]]

_flagsAllTrue(W, flagNames) ==
  \A n \in 1..Len(flagNames) :
     flagNames[n] = "" \/ _getAnyFlag(W, flagNames[n]) = TRUE

_flagsAnyTrue(W, flagNames) ==
  \E n \in 1..Len(flagNames) :
     flagNames[n] # "" /\ _getAnyFlag(W, flagNames[n]) = TRUE

\* scene.sound.add(key).play(): a fresh handle, playing
PlaySound(W, name) == [W EXCEPT !.scene.playing = @ \cup {<<name, W.hist.run>>}]

_safePlay(W, nameOrKey) == [W EXCEPT !.scene.oneShots = @ \cup {nameOrKey}]

_playScaledSfx(W, sfxName) == _safePlay(W, sfxName)

_stackShake(W, ms) ==
  LET dur == clampInt(ms, 0, 5000) IN
  IF dur <= 0 THEN W
  ELSE [W EXCEPT !.scene._shakeEndAt = Max(@, W.now) + dur]

\* the factor is held in percent
_pushMusicDuck(W, factor) ==
  [W EXCEPT !.scene._musicDuckStack = Append(@, clampInt(factor, 0, 100))]

_popMusicDuck(W) ==
  [W EXCEPT !.scene._musicDuckStack =
     IF Len(@) = 0 THEN @ ELSE SubSeq(@, 1, Len(@) - 1)]

setSceneMusic(W, nameOrKey, persist) ==
  LET sceneKey == W.scene.key
      overrides == IF Has(W.GameState.flags, "__sceneMusicOverride")
                     THEN W.GameState.flags["__sceneMusicOverride"] ELSE EmptyMap
      name == IF Has(overrides, sceneKey) THEN overrides[sceneKey] ELSE nameOrKey
      W1 == IF persist
              THEN [W EXCEPT !.GameState.flags =
                      Put(@, "__sceneMusicOverride", Put(overrides, sceneKey, name))]
              ELSE W
  IN [W1 EXCEPT !.scene._sceneMusicKey = name]

\* props[a] ?? props[b], as a list
\* layer.setVisible(visible) on the layer object
setVisible(W, lname, visible) == [W EXCEPT !.scene.layers = Put(@, lname, visible)]

\* the persisting variant records the visibility, the other one only the object's
showOrHideLayer_forgetting(W, lname, visible) ==
  IF Has(W.scene.layers, lname) THEN setVisible(W, lname, visible) ELSE W

\* const layer = this.layers?.[lname]; layer?.setVisible?.(visible);
\* setLayerHidden(this.scene.key, lname, !visible)
showOrHideLayer(W, lname, visible) ==
  setLayerHidden(IF Has(W.scene.layers, lname) THEN setVisible(W, lname, visible) ELSE W,
                 W.scene.key, lname, ~visible)

_colliderRemovedFlag(sceneKey, colliderId) ==
  _flagKey("__collider_removed", <<sceneKey, colliderId>>)

\* a variant that removes the rectangle and persists nothing
_removeColliderById_unpersisted(W, cid) ==
  [W EXCEPT !.scene._colliderById = @ \ {cid}]

_removeColliderById(W, cid) ==
  IF cid = "" THEN W
  ELSE IF cid \notin W.scene._colliderById THEN W
  ELSE _setAnyFlag([W EXCEPT !.scene._colliderById = @ \ {cid}],
                   _colliderRemovedFlag(W.scene.key, cid), TRUE)

_reapplyPersistedColliderRemovals(W) ==
  LET objects == LevelColliders[W.scene.key]
  IN ForEach(LAMBDA V, obj :
               IF obj.id = "" THEN V
               ELSE IF _getAnyFlag(V, _colliderRemovedFlag(V.scene.key, obj.id)) # TRUE THEN V
               ELSE _removeColliderById(V, obj.id),
             W, objects)

\* the collider part of _buildFromTiled
buildColliders(W) ==
  LET objects == LevelColliders[W.scene.key]
      kept == {i \in 1..Len(objects) :
                 objects[i].width > 0 /\ objects[i].height > 0 /\ objects[i].id # ""}
  IN _reapplyPersistedColliderRemovals(
       [W EXCEPT !.scene._colliderById = {objects[i].id : i \in kept}])

_layerInitFlag(sceneKey, layerName) == _flagKey("__layer_init", <<sceneKey, layerName>>)

\* _buildFromTiled: the loop over the tile layers of the map, then the colliders
_buildFromTiled(W) ==
  LET sceneKey == W.scene.key
      info == LevelLayers[sceneKey]
      names == DOMAIN info
      Build(V, name) ==
        LET initKey == _layerInitFlag(sceneKey, name)
            initDone == _getAnyFlag(V, initKey) = TRUE
            Shown(U) == IF ~initDone /\ IsTrue(info[name], "starthidden")
                          THEN setLayerHidden(setVisible(U, name, FALSE), sceneKey, name, TRUE)
                          ELSE setVisible(U, name, ~isLayerHidden(U, sceneKey, name))
        IN _setAnyFlag(Shown(V), initKey, TRUE)
      RECURSIVE Each(_, _)
      Each(V, rest) ==
        IF rest = {} THEN V
        ELSE LET name == CHOOSE n \in rest : TRUE IN Each(Build(V, name), rest \ {name})
  IN buildColliders(Each([W EXCEPT !.scene.layers = EmptyMap], names))

CsvEither(props, a, b) == IF Has(props, a) THEN Csv(props, a) ELSE Csv(props, b)

\* one statement group of _applyChoiceEffects
ChoiceEffect(W, id, i, effect) ==
  LET props == PropsOf(id)
      c == "choice" \o ToString(i)
      sceneKey == W.scene.key
      choiceFxKey == "__choicefx__" \o sceneKey \o "__" \o id \o "__" \o ToString(i)
      choiceFxCount == Count(W.GameState.flags, choiceFxKey)
      uses == clampInt(Num(props, c \o "sfxuses", 0), 0, 999)
      allow == /\ ~IsTrue(props, c \o "sfxonce") \/ choiceFxCount = 1
               /\ ~(uses > 0 /\ choiceFxCount > uses)
      hsKey == "__choicehs__" \o sceneKey \o "__" \o id \o "__" \o ToString(i)
  IN CASE effect = "markhelped" -> markHelped(W, Str(props, c \o "markhelped"), TRUE)
       [] effect = "choice" -> [W EXCEPT !.GameState.interactions.choices = Put(@, id, i)]
       [] effect = "count" -> _setAnyFlag(W, choiceFxKey, choiceFxCount + 1)
       [] effect = "shake" -> _stackShake(W, Num(props, c \o "shake", 0))
       [] effect = "sfx" ->
            IF Str(props, c \o "sfx") # "" /\ allow
              THEN _playScaledSfx(W, props[c \o "sfx"]) ELSE W
       [] effect = "helpscore" ->
            IF ~Has(props, c \o "helpscore") THEN W
            ELSE IF Has(W.GameState.flags, hsKey) /\ W.GameState.flags[hsKey] = TRUE
              THEN OnceBlocked(W, hsKey)
            ELSE [OnceApplied(_setAnyFlag(W, hsKey, TRUE), hsKey)
                    EXCEPT !.GameState.helpScore = @ + props[c \o "helpscore"]]
       [] effect = "showlayer" ->
            ForEach(LAMBDA V, lname : showOrHideLayer(V, lname, TRUE), W,
                    CsvEither(props, c \o "showlayer", c \o "showlayers"))
       [] effect = "hidelayer" ->
            ForEach(LAMBDA V, lname : showOrHideLayer(V, lname, FALSE), W,
                    CsvEither(props, c \o "hidelayer", c \o "hidelayers"))
       [] effect = "removecollider" ->
            ForEach(LAMBDA V, cid : _removeColliderById(V, cid), W,
                    CsvEither(props, c \o "removecollider", c \o "removecolliders"))
       [] effect = "enableinteractions" ->
            ForEach(LAMBDA V, eid : _setInteractionDisabled(V, eid, FALSE), W,
                    CsvEither(props, c \o "enableinteractions", c \o "enableinteraction"))
       [] effect = "disableinteractions" ->
            ForEach(LAMBDA V, did : _setInteractionDisabled(V, did, TRUE), W,
                    CsvEither(props, c \o "disableinteractions", c \o "disableinteraction"))

\* the statement groups in the order of the code
_applyChoiceEffects(W, id, i) ==
  ForEach(LAMBDA V, effect : ChoiceEffect(V, id, i, effect), W,
          << "markhelped", "choice", "count", "shake", "sfx", "helpscore", "showlayer",
             "hidelayer", "removecollider", "enableinteractions", "disableinteractions" >>)

\* the giveItemOnce loop body
GiveItemOnce(W, id, item) ==
  LET k == _flagKey("__give_once", <<W.scene.key, id, item>>) IN
  IF _getAnyFlag(W, k) = TRUE THEN OnceBlocked(W, k)
  ELSE OnceApplied(_setAnyFlag(addItem(W, item, 1), k, TRUE), k)

\* the takeItemOnce loop body
TakeItemOnce(W, id, item) ==
  LET k == _takeOnceFlag(W.scene.key, id, item) IN
  IF _getAnyFlag(W, k) = TRUE THEN OnceBlocked(W, k)
  ELSE OnceApplied(_setAnyFlag(removeItem(W, item, 1), k, TRUE), k)

\* the music switch at the head of _applyInteractionEffects
_clearSceneMusicOverride(W) ==
  LET sceneKey == W.scene.key
  IN IF Has(W.GameState.flags, "__sceneMusicOverride")
          /\ Has(W.GameState.flags["__sceneMusicOverride"], sceneKey)
       THEN [W EXCEPT !.GameState.flags["__sceneMusicOverride"] =
               [k \in DOMAIN @ \ {sceneKey} |-> @[k]]]
       ELSE W

ApplyMusic(W0, id) ==
  LET props == PropsOf(id)
      W == IF IsTrue(props, "clearmusicpersist") THEN _clearSceneMusicOverride(W0) ELSE W0
      setOnceKey == Str(props, "setmusiconce")
      setKey == Str(props, "setmusic")
      pickKey == IF setOnceKey # "" THEN setOnceKey ELSE setKey
      persist == IsTrue(props, "setmusicpersist")
      onceFlag == _flagKey("__set_music_once", <<W.scene.key, id, pickKey>>)
  IN IF pickKey = "" THEN W
     ELSE IF setOnceKey # ""
       THEN IF _getAnyFlag(W, onceFlag) # TRUE
              THEN OnceApplied(_setAnyFlag(setSceneMusic(W, pickKey, persist), onceFlag, TRUE),
                               onceFlag)
              ELSE OnceBlocked(W, onceFlag)
     ELSE setSceneMusic(W, pickKey, persist)

\* one statement group of _applyInteractionEffects
InteractionEffect(W, id, effect) ==
  LET props == PropsOf(id)
      sceneKey == W.scene.key
      removeIds == Csv(props, "removeinteraction")
  IN CASE effect = "music" -> ApplyMusic(W, id)
       [] effect = "hidelayer" ->
            ForEach(LAMBDA V, lname : showOrHideLayer(V, lname, FALSE), W,
                    CsvEither(props, "hidelayer", "hidelayers"))
       [] effect = "showlayer" ->
            ForEach(LAMBDA V, lname : showOrHideLayer(V, lname, TRUE), W,
                    CsvEither(props, "showlayer", "showlayers"))
       [] effect = "giveitem" ->
            ForEach(LAMBDA V, item : addItem(V, item, 1), W, Csv(props, "giveitem"))
       [] effect = "giveitemonce" ->
            ForEach(LAMBDA V, item : GiveItemOnce(V, id, item), W, Csv(props, "giveitemonce"))
       [] effect = "takeitemonce" ->
            ForEach(LAMBDA V, item : TakeItemOnce(V, id, item), W, Csv(props, "takeitemonce"))
       [] effect = "takeitem" ->
            ForEach(LAMBDA V, item : removeItem(V, item, 1), W, Csv(props, "takeitem"))
       [] effect = "removecollider" ->
            ForEach(LAMBDA V, cid : _removeColliderById(V, cid), W,
                    CsvEither(props, "removecollider", "removecolliders"))
       [] effect = "helpscore" ->
            IF Has(props, "helpscore") THEN addHelp(W, props["helpscore"]) ELSE W
       [] effect = "addscore" ->
            IF Has(props, "addscore") THEN addScore(W, props["addscore"]) ELSE W
       [] effect = "markhelped" -> markHelped(W, Str(props, "markhelped"), TRUE)
       [] effect = "setflags" ->
            ForEach(LAMBDA V, f : _setAnyFlag(V, f, TRUE), W,
                    CsvEither(props, "setflags", "setflag"))
       [] effect = "clearflags" ->
            ForEach(LAMBDA V, f : _setAnyFlag(V, f, FALSE), W,
                    CsvEither(props, "clearflags", "clearflag"))
       [] effect = "disableinteractions" ->
            ForEach(LAMBDA V, tgtRaw :
                      LET tgt == _parseInteractionTarget(tgtRaw, sceneKey) IN
                      IF tgt.id = "" THEN V
                      ELSE [Forced(_setInteractionForcedDisabled(V, tgt.sceneKey, tgt.id, TRUE),
                                   tgt.sceneKey, tgt.id, "disabled")
                              EXCEPT !.scene.interactables =
                                       IF tgt.sceneKey = sceneKey THEN @ \ {tgt.id} ELSE @],
                    W, CsvEither(props, "disableinteractions", "disableinteraction"))
       [] effect = "enableinteractions" ->
            ForEach(LAMBDA V, tgtRaw :
                      LET tgt == _parseInteractionTarget(tgtRaw, sceneKey) IN
                      IF tgt.id = "" THEN V
                      ELSE Forced(_setInteractionForcedEnabled(
                                    _setInteractionForcedDisabled(V, tgt.sceneKey, tgt.id, FALSE),
                                    tgt.sceneKey, tgt.id, TRUE),
                                  tgt.sceneKey, tgt.id, "enabled"),
                    W, CsvEither(props, "enableinteractions", "enableinteraction"))
       [] effect = "disableself" ->
            IF IsTrue(props, "disableself")
              THEN [Forced(_setInteractionForcedDisabled(W, sceneKey, id, TRUE),
                           sceneKey, id, "disabled")
                      EXCEPT !.scene.interactables = @ \ {id}]
              ELSE W
       [] effect = "removeinteraction" ->
            IF Len(removeIds) > 0
              THEN ForEach(LAMBDA V, rid : disableInteraction(V, rid), W, removeIds)
            ELSE IF IsTrue(props, "once") THEN disableInteraction(W, id)
            ELSE W
       [] effect = "once" ->
            IF IsTrue(props, "once") \/ \E n \in 1..Len(removeIds) : removeIds[n] = id
              THEN [W EXCEPT !.scene.interactables = @ \ {id}]
              ELSE W

\* the statement groups in the order of the code
_applyInteractionEffects(W, id) ==
  ForEach(LAMBDA V, effect : InteractionEffect(V, id, effect),
          [W EXCEPT !.hist.applied = Put(@, id, Count(@, id) + 1)],
          << "music", "hidelayer", "showlayer", "giveitem", "giveitemonce", "takeitemonce",
             "takeitem", "removecollider", "helpscore", "addscore", "markhelped", "setflags", "clearflags",
             "disableinteractions", "enableinteractions", "disableself",
             "removeinteraction", "once" >>)

\* runOnceGuard(type, extra) of _appendLineMetaActions: the flag it tests and sets
LineOnceFlag(W, id, k, type, extra) ==
  _flagKey("__line_effect_once", <<W.scene.key, id, k, type, extra>>)

\* if (!runOnceGuard(type, extra)) return; W = Effect(W)
GuardedOnce(Effect(_), W, flag) ==
  IF _getAnyFlag(W, flag) = TRUE THEN OnceBlocked(W, flag)
  ELSE Effect(OnceApplied(_setAnyFlag(W, flag, TRUE), flag))

_appendLineMetaActions(interactionId, props, key, steps) ==
  LET LineStep(op) == [type |-> "action", run |-> [op |-> op, id |-> interactionId, k |-> key]]
  IN IF interactionId = "" \/ key = "" THEN steps
     ELSE steps
       \o (IF Str(props, key \o "sfx") # "" THEN <<LineStep("linesfx")>> ELSE <<>>)
       \o (IF Str(props, key \o "giveitem") # "" THEN <<LineStep("linegive")>> ELSE <<>>)
       \o (IF Num(props, key \o "addhelp", 0) # 0 THEN <<LineStep("lineaddhelp")>> ELSE <<>>)
       \o (IF Num(props, key \o "addscore", 0) # 0 THEN <<LineStep("lineaddscore")>> ELSE <<>>)

-----------------------------------------------------------------------------
(* Method calls.  Call(W, name, args) is the world after the method or closure *)
(* `name` ran on the arguments args; it is defined after the methods.          *)

RECURSIVE Call(_, _, _)

-----------------------------------------------------------------------------
(* systems/DialogueBox.js *)

DialogueBox0 ==
  [ active |-> FALSE,
    script |-> <<>>,
    index |-> 0,
    onComplete |-> NullCb,
    isTyping |-> FALSE,
    fullText |-> 0,
    visibleText |-> 0,
    typingEvent |-> NoEvent,
    inChoice |-> FALSE,
    choiceIndex |-> 0,
    choiceOptions |-> <<>>,
    choiceStepOnSelect |-> NoSelect,
    choiceConfirmReadyAt |-> 0,
    nextInputReadyAt |-> 0,
    keyHandlersBound |-> FALSE,
    visible |-> FALSE,
    _ownedSounds |-> {} ]

\* observer: an input of `kind` passed the gate and scheduled a cooldown of ms
Accept(W, kind, ms) ==
  [W EXCEPT !.hist.early = IF W.hist.cooldownUntil > W.now THEN @ \cup {kind} ELSE @,
            !.hist.cooldownUntil = W.now + ms]

\* observer: what the accepted confirm did
Confirmed(W, mode) ==
  [W EXCEPT !.hist.prevZ = W.hist.lastZ, !.hist.lastZ = mode]

_gateInput(W, ms) ==
  [W EXCEPT !.dialogue.nextInputReadyAt = Max(@, W.now + ms)]

_canAcceptInput(W) == W.now >= W.dialogue.nextInputReadyAt

trackSound(W, sound, persistAfterDialogue) ==
  IF persistAfterDialogue THEN W
  ELSE [W EXCEPT !.dialogue._ownedSounds = @ \cup {sound},
                 !.hist.tracked = @ \cup {sound}]

\* a variant of _stopOwnedSoundsOnExit that forgets the sounds without stopping them
_stopOwnedSoundsOnExit_forgetting(W) == [W EXCEPT !.dialogue._ownedSounds = {}]

_stopOwnedSoundsOnExit(W) ==
  [W EXCEPT !.scene.playing = @ \ W.dialogue._ownedSounds,
            !.dialogue._ownedSounds = {}]

_bindKeys(W) == [W EXCEPT !.dialogue.keyHandlersBound = TRUE]

\* a variant of _unbindKeys that leaves the handlers bound
_unbindKeys_kept(W) == W

_unbindKeys(W) == [W EXCEPT !.dialogue.keyHandlersBound = FALSE]

\* the completion callback handed to start(), called by stop(true):
\*   "effects": () => { onComplete(); endDuck(); } of _runTiledInteraction
\*   "choice":  () => { onComplete(); if (wantsDuck) this._popMusicDuck(); }
\*   "endDuck": () => endDuck()
InvokeCallback(W, cb) ==
  LET Seen(V) == [V EXCEPT !.hist.completed = IF cb.run = V.hist.run THEN @ + 1 ELSE @,
                           !.hist.foreign = @ \/ cb.run # V.hist.run]
      fn == W.scene._pendingChoiceEffect
      Pending(V) == IF fn.on
                      THEN Call([V EXCEPT !.hist.choiceFx = [on |-> TRUE, id |-> fn.id,
                                                             i |-> fn.i,
                                                             own |-> V.hist.selOwn]],
                                "_applyChoiceEffects", <<fn.id, fn.i>>)
                      ELSE V
      Run(V) == CASE cb.kind = "effects" ->
                       IF cb.apply THEN Call(V, "_applyInteractionEffects", <<cb.id>>) ELSE V
                  [] cb.kind = "choice" ->
                       Pending([V EXCEPT !.scene._pendingChoiceEffect = NoPending])
                  [] OTHER -> V
      EndDuck(V) == IF cb.duck THEN _popMusicDuck(V) ELSE V
  IN EndDuck(Run(Seen(W)))

stop(W, callOnComplete) ==
  LET W1 == [W EXCEPT !.dialogue.active = FALSE,
                      !.dialogue.typingEvent = NoEvent,
                      !.dialogue.isTyping = FALSE,
                      !.dialogue.inChoice = FALSE,
                      !.dialogue.fullText = 0,
                      !.dialogue.visibleText = 0,
                      !.dialogue.choiceOptions = <<>>,
                      !.dialogue.choiceStepOnSelect = NoSelect,
                      !.dialogue.visible = FALSE,
                      !.hist.lastStopAt = W.now]
      W2 == _gateInput(lockInteract(_stopOwnedSoundsOnExit(_unbindKeys(W1)), stopLockMs),
                       inputCooldownMs)
      cb == W.dialogue.onComplete
  IN IF callOnComplete /\ cb.kind # "null"
       THEN Call([W2 EXCEPT !.dialogue.onComplete = NullCb], "InvokeCallback", <<cb>>)
       ELSE W2

\* a variant of _finishTypingInstant that also moves on to the next step
_finishTypingInstant_skipping(W) ==
  IF ~W.dialogue.isTyping THEN W
  ELSE [W EXCEPT !.dialogue.isTyping = FALSE,
                 !.dialogue.typingEvent = NoEvent,
                 !.dialogue.visibleText = W.dialogue.fullText,
                 !.dialogue.index = @ + 1]

_finishTypingInstant(W) ==
  IF ~W.dialogue.isTyping THEN W
  ELSE [W EXCEPT !.dialogue.isTyping = FALSE,
                 !.dialogue.typingEvent = NoEvent,
                 !.dialogue.visibleText = W.dialogue.fullText]

_say(W, text) ==
  [W EXCEPT !.dialogue.fullText = text,
            !.dialogue.visibleText = 0,
            !.dialogue.isTyping = TRUE,
            !.dialogue.typingEvent =
               [on |-> TRUE, at |-> W.now + typingSpeedMs, i |-> 0,
                kind |-> "say", options |-> <<>>]]

\* the closure of the delayedCall holds no reference to the run or to the step;
\* run and index record, for the observer only, which run scheduled it and where
_pause(W, ms) ==
  [W EXCEPT !.timers = Append(@, [at |-> W.now + ms, fn |-> "pause", id |-> "", useIndex |-> 0,
                                  run |-> W.hist.run, index |-> W.dialogue.index])]

_choice(W, prompt, options, stepOnSelect) ==
  [W EXCEPT !.dialogue.fullText = prompt,
            !.dialogue.visibleText = 0,
            !.dialogue.choiceStepOnSelect = stepOnSelect,
            !.dialogue.isTyping = TRUE,
            !.dialogue.typingEvent =
               [on |-> TRUE, at |-> W.now + typingSpeedMs, i |-> 0,
                kind |-> "choice", options |-> options]]

\* throw: the statements that follow, up to the handler, do not run
throw(W) == [W EXCEPT !.hist.exc = TRUE]

\* a variant without the handler: the exception leaves the method
catch_absent(W) == W

\* catch (e) { console.warn(...) } / console.error(...): the exception ends here
catch(W) == IF W.hist.exc THEN [W EXCEPT !.hist.exc = FALSE, !.hist.caught = TRUE] ELSE W

\* step.run() of an action step: a caller's own step that plays a tracked sound
\* ("sfx"), or one of the steps pushed by _appendLineMetaActions
RunAction(W, run) ==
  LET props == PropsOf(run.id)
      k == run.k
      Truthy(name) == IsTrue(props, k \o name)
      persist == Truthy("sfxpersist") \/ Truthy("sfxpersistafterdialogue")
      stopOnExit == IF Has(props, k \o "sfxstoponexit") THEN Truthy("sfxstoponexit") ELSE TRUE
      sfxName == Str(props, k \o "sfx")
      giveItem == Str(props, k \o "giveitem")
      giveCount == Max(1, Num(props, k \o "givecount", 1))
      PlayLine(V) ==
        LET V1 == PlaySound(V, sfxName)
        IN IF ~persist /\ stopOnExit THEN trackSound(V1, <<sfxName, V.hist.run>>, FALSE) ELSE V1
      Give(V) == addItem(V, giveItem, giveCount)
      Help(V) == addHelp(V, Num(props, k \o "addhelp", 0))
      Score(V) == addScore(V, Num(props, k \o "addscore", 0))
  IN CASE run.op = "sfx" ->
            trackSound(PlaySound(W, run.name), <<run.name, W.hist.run>>, run.persist)
       \* a callback that plays a sound and then throws, and one that returns
       [] run.op = "throws" -> throw(PlaySound(W, run.name))
       [] run.op = "plays" -> PlaySound(W, run.name)
       [] run.op = "linesfx" ->
            IF Truthy("sfxonce")
              THEN GuardedOnce(PlayLine, W, LineOnceFlag(W, run.id, k, "sfx", ""))
              ELSE PlayLine(W)
       [] run.op = "linegive" ->
            IF Truthy("giveonce")
              THEN GuardedOnce(Give, W, LineOnceFlag(W, run.id, k, "giveitem", giveItem))
              ELSE Give(W)
       [] run.op = "lineaddhelp" ->
            GuardedOnce(Help, W, LineOnceFlag(W, run.id, k, "addhelp", ""))
       [] run.op = "lineaddscore" ->
            GuardedOnce(Score, W, LineOnceFlag(W, run.id, k, "addscore", ""))
       [] OTHER -> W

_runCurrentStep(W) ==
  LET d == W.dialogue IN
  IF ~d.active THEN W
  ELSE IF d.index < 0 \/ d.index >= Len(d.script)
    THEN Call([W EXCEPT !.hist.endReached = TRUE], "stop", <<TRUE>>)
  ELSE LET step == d.script[d.index + 1] IN
    CASE step.type = "say" -> _say(_gateInput(W, inputCooldownMs), step.text)
      [] step.type = "pause" -> _pause(W, step.ms)
      [] step.type = "choice" ->
           _choice(_gateInput([W EXCEPT !.hist.choiceAt = d.index], inputCooldownMs),
                   step.prompt, step.options,
                   IF "onSelect" \in DOMAIN step THEN step.onSelect ELSE NoSelect)
      [] step.type = "action" ->
           LET V == catch(Call(W, "RunAction", <<step.run>>))
           IN IF V.hist.exc THEN V
              ELSE Call([V EXCEPT !.dialogue.index = d.index + 1], "_runCurrentStep", <<>>)
      [] step.type = "end" ->
           Call([W EXCEPT !.hist.endReached = TRUE], "stop", <<TRUE>>)
      [] OTHER -> Call([W EXCEPT !.dialogue.index = d.index + 1], "_runCurrentStep", <<>>)

start(W, script, onComplete) ==
  LET W1 == Call(W, "stop", <<FALSE>>)
      run == W.hist.run + 1
      W2 == [W1 EXCEPT !.dialogue.active = TRUE,
                       !.dialogue.script = script,
                       !.dialogue.index = 0,
                       !.dialogue.onComplete = [onComplete EXCEPT !.run = run],
                       !.dialogue.visible = TRUE,
                       !.hist = NewRun(W1.hist, run, onComplete.kind # "null")]
  IN Call(_gateInput(_bindKeys(W2), inputCooldownMs), "_runCurrentStep", <<>>)

\* option.onSelect of the chosen option; the options of _runChoiceInteraction
\* carry () => { this._pendingChoiceEffect = () => this._applyChoiceEffects(id, props, i) }
RunOnSelect(W, chosen, choiceIndex) ==
  LET fn == chosen.onSelect
      W1 == [W EXCEPT !.hist.lastChosen.onSelectAt = W.dialogue.index]
  IN CASE fn.kind = "none" -> W
       [] fn.kind = "pending" ->
            [W1 EXCEPT !.scene._pendingChoiceEffect = [on |-> TRUE, id |-> fn.id, i |-> fn.i],
                       !.hist.selOwn = TRUE]
       \* a callback that throws
       [] fn.kind = "throws" -> throw(W1)
       [] OTHER -> W1

\* the body of the try block of the confirm: the onSelect of the step, then the
\* onSelect of the option
RunSelectCallbacks(W, chosen, choiceIndex) ==
  LET V == RunOnSelect(W, [onSelect |-> W.dialogue.choiceStepOnSelect], choiceIndex)
  IN IF V.hist.exc THEN V ELSE RunOnSelect(V, chosen, choiceIndex)

\* the keydown-Z handler
_onZ(W) ==
  LET d == W.dialogue IN
  IF ~d.active THEN W
  ELSE IF ~_canAcceptInput(W) THEN W
  ELSE LET W1 == lockInteract(_gateInput(Accept(W, "z", inputCooldownMs), inputCooldownMs),
                              stopLockMs) IN
    IF d.isTyping
      THEN _gateInput(_finishTypingInstant(Confirmed(W1, "snap")), inputCooldownMs)
    ELSE IF d.inChoice THEN
      IF W.now < d.choiceConfirmReadyAt THEN Confirmed(W1, "wait")
      ELSE IF d.choiceIndex + 1 > Len(d.choiceOptions) THEN Confirmed(W1, "wait")
      ELSE LET chosen == d.choiceOptions[d.choiceIndex + 1]
               W2 == catch(RunSelectCallbacks(
                       [Confirmed(W1, "select") EXCEPT !.hist.lastChosen =
                          [valid |-> TRUE, option |-> chosen, choiceAt |-> W.hist.choiceAt,
                           indexBefore |-> d.index, onSelectAt |-> -1, resumedAt |-> -1]],
                       chosen, d.choiceIndex))
               idx == IF chosen.hasNext THEN chosen.next ELSE W2.dialogue.index + 1
           IN IF W2.hist.exc THEN W2
              ELSE Call([W2 EXCEPT !.dialogue.index = idx,
                                   !.dialogue.inChoice = FALSE,
                                   !.hist.lastChosen.resumedAt = idx],
                        "_runCurrentStep", <<>>)
    ELSE Call([Confirmed(W1, "advance") EXCEPT !.dialogue.index = d.index + 1],
              "_runCurrentStep", <<>>)

\* the keydown-UP / keydown-W handler
_onUp(W) ==
  LET d == W.dialogue IN
  IF ~d.active \/ ~d.inChoice THEN W
  ELSE IF ~_canAcceptInput(W) THEN W
  ELSE [_gateInput(Accept(W, "up", choiceMoveCooldownMs), choiceMoveCooldownMs) EXCEPT
          !.dialogue.choiceIndex =
             (d.choiceIndex - 1 + Len(d.choiceOptions)) % Len(d.choiceOptions)]

\* the keydown-DOWN / keydown-S handler
_onDown(W) ==
  LET d == W.dialogue IN
  IF ~d.active \/ ~d.inChoice THEN W
  ELSE IF ~_canAcceptInput(W) THEN W
  ELSE [_gateInput(Accept(W, "down", choiceMoveCooldownMs), choiceMoveCooldownMs) EXCEPT
          !.dialogue.choiceIndex = (d.choiceIndex + 1) % Len(d.choiceOptions)]

\* the keydown-ESC handler
\* a variant of the cancel key that ends the dialogue as a completed one
_onEsc_completing(W) ==
  IF ~W.dialogue.active THEN W ELSE Call(Accept(W, "esc", inputCooldownMs), "stop", <<TRUE>>)

_onEsc(W) ==
  IF ~W.dialogue.active THEN W ELSE Call(Accept(W, "esc", inputCooldownMs), "stop", <<FALSE>>)

\* the callback of the typing event of _say and _choice
typingCallback(W) ==
  LET d == W.dialogue
      ev == d.typingEvent
      i == ev.i + 1
  IN IF ~d.active THEN W
     ELSE IF i >= d.fullText
       THEN LET W1 == [W EXCEPT !.dialogue.visibleText = Min(i, d.fullText),
                                !.dialogue.isTyping = FALSE,
                                !.dialogue.typingEvent = NoEvent]
            IN IF ev.kind = "choice"
                 THEN [W1 EXCEPT !.dialogue.inChoice = TRUE,
                                 !.dialogue.choiceOptions = ev.options,
                                 !.dialogue.choiceIndex = 0,
                                 !.dialogue.choiceConfirmReadyAt =
                                    Max(W.now + choiceConfirmDelayMs, W.now + inputCooldownMs)]
                 ELSE W1
       ELSE [W EXCEPT !.dialogue.visibleText = i,
                      !.dialogue.typingEvent.i = i,
                      !.dialogue.typingEvent.at = W.now + typingSpeedMs]

\* the callback of the delayedCall of _pause
pauseCallback(W) ==
  IF ~W.dialogue.active THEN W
  ELSE Call([W EXCEPT !.dialogue.index = @ + 1], "_runCurrentStep", <<>>)

-----------------------------------------------------------------------------
(* scenes/BaseExploreScene.js: the tiled-interaction runner *)

RECURSIVE NumberedFrom(_, _, _)
NumberedFrom(props, baseKey, i) ==
  IF i > 99 \/ ~Has(props, baseKey \o ToString(i)) THEN <<>>
  ELSE <<baseKey \o ToString(i)>> \o NumberedFrom(props, baseKey, i + 1)

_getNumberedKeys(props, baseKey) ==
  (IF Has(props, baseKey) THEN <<baseKey>> ELSE <<>>) \o NumberedFrom(props, baseKey, 2)

\* _getNumberedPropLines of the level-scene helpers: the texts, blank ones left out
RECURSIVE NumberedLinesFrom(_, _, _)
NumberedLinesFrom(props, baseKey, i) ==
  IF i > 50 \/ ~Has(props, baseKey \o ToString(i)) THEN <<>>
  ELSE (IF props[baseKey \o ToString(i)] # 0 THEN <<props[baseKey \o ToString(i)]>> ELSE <<>>)
         \o NumberedLinesFrom(props, baseKey, i + 1)

_getNumberedPropLines(props, baseKey) ==
  IF baseKey = "" THEN <<>>
  ELSE (IF Has(props, baseKey) /\ props[baseKey] # 0 THEN <<props[baseKey]>> ELSE <<>>)
         \o NumberedLinesFrom(props, baseKey, 2)

\* names are compared in lower case
_setFollowerFlag(W, name, enabled) ==
  IF name = "" THEN W
  ELSE IF name = "saga" THEN _setAnyFlag(W, "sagaJoined", enabled)
  ELSE IF name = "aloise" THEN _setAnyFlag(W, "aloiseFollowing", enabled)
  ELSE _setAnyFlag(_setAnyFlag(W, name \o "joined", enabled), name \o "following", enabled)

_hasFollower(W, name) ==
  IF name = "" THEN FALSE
  ELSE IF name = "saga" THEN _getAnyFlag(W, "sagaJoined") = TRUE
  ELSE IF name = "aloise" THEN _getAnyFlag(W, "aloiseFollowing") = TRUE
  ELSE _getAnyFlag(W, name \o "joined") = TRUE \/ _getAnyFlag(W, name \o "following") = TRUE

\* _selectDialogueVariantPrefix asking for the variant of Saga before the one for both
_selectDialogueVariantPrefix_singleFirst(W, props, basePrefix) ==
  LET hasSaga == _hasFollower(W, "saga")
      hasAloise == _hasFollower(W, "aloise")
      HasKeys(p) == Len(_getNumberedKeys(props, p)) > 0
  IN IF hasSaga /\ HasKeys("sagafollower" \o basePrefix)
       THEN "sagafollower" \o basePrefix
     ELSE IF hasSaga /\ hasAloise /\ HasKeys("bothfollowers" \o basePrefix)
       THEN "bothfollowers" \o basePrefix
     ELSE IF hasAloise /\ HasKeys("aloisefollower" \o basePrefix)
       THEN "aloisefollower" \o basePrefix
     ELSE basePrefix

_selectDialogueVariantPrefix(W, props, basePrefix) ==
  LET hasSaga == _hasFollower(W, "saga")
      hasAloise == _hasFollower(W, "aloise")
      HasKeys(p) == Len(_getNumberedKeys(props, p)) > 0
  IN IF hasSaga /\ hasAloise /\ HasKeys("bothfollowers" \o basePrefix)
       THEN "bothfollowers" \o basePrefix
     ELSE IF hasSaga /\ HasKeys("sagafollower" \o basePrefix)
       THEN "sagafollower" \o basePrefix
     ELSE IF hasAloise /\ HasKeys("aloisefollower" \o basePrefix)
       THEN "aloisefollower" \o basePrefix
     ELSE basePrefix

\* for (const k of keys) { text or continue; _appendLineMetaActions; steps.push(say) }
LinesFromKeys(interactionId, props, keys, steps) ==
  LET f[n \in 0..Len(keys)] ==
        IF n = 0 THEN steps
        ELSE IF Num(props, keys[n], 0) = 0 THEN f[n - 1]
        ELSE Append(_appendLineMetaActions(interactionId, props, keys[n], f[n - 1]),
                    Say(props[keys[n]]))
  IN f[Len(keys)]

_buildDialogueScriptFromPrefix(props, prefix, interactionId) ==
  LET keys == _getNumberedKeys(props, prefix) IN
  IF prefix = "" THEN <<>>
  ELSE LinesFromKeys(interactionId, props, keys, <<>>)

_buildSequenceScriptFromKeys(keys, props, startIndex1, endIndex1, interactionId) ==
  LET first == Max(1, startIndex1)
      last == Max(first, Min(Len(keys), endIndex1))
  IN IF Len(keys) = 0 THEN <<>>
     ELSE LinesFromKeys(interactionId, props, SubSeq(keys, first, last), <<>>)

_postHelpedKey(props) ==
  IF Has(props, "posthelpedname") THEN props["posthelpedname"]
  ELSE IF Has(props, "markhelped") THEN props["markhelped"]
  ELSE Str(props, "speaker")

WantsDuck(props) == IsTrue(props, "mutemusic") \/ IsTrue(props, "duckmusic")

\* startDuck of _runTiledInteraction
startDuck(W, props) ==
  IF WantsDuck(props) THEN _pushMusicDuck(W, Num(props, "duckmusicfactor", 0)) ELSE W

Callback(kind, id, apply, duck) ==
  [kind |-> kind, run |-> 0, id |-> id, apply |-> apply, duck |-> duck]

_runChoiceInteraction(W, id) ==
  LET props == PropsOf(id)
      sequenceDialogue == IsTrue(props, "sequencedialogue")
      dialoguePrefix == _selectDialogueVariantPrefix(W, props, "dialogue")
      introKeys == _getNumberedKeys(props, dialoguePrefix)
      prompt == Num(props, "choiceprompt", 6)
      introKey == IF Has(props, dialoguePrefix) THEN dialoguePrefix ELSE "dialogue"
      intro ==
        IF Len(introKeys) > 0
          THEN IF sequenceDialogue
                 THEN _buildSequenceScriptFromKeys(introKeys, props, 1, Len(introKeys), id)
                 ELSE LinesFromKeys(id, props, introKeys, <<>>)
          ELSE LinesFromKeys(id, props, <<introKey>>, <<>>)
      choiceIndex == Len(intro)
      built[i \in 0..6] ==
        IF i = 0 THEN [script |-> Append(intro, Choice(prompt, <<>>)), options |-> <<>>]
        ELSE LET prev == built[i - 1]
                 baseChoicePrefix == "choice" \o ToString(i) \o "dialogue"
                 choicePrefix == _selectDialogueVariantPrefix(W, props, baseChoicePrefix)
                 dlgKeys == _getNumberedKeys(props, choicePrefix)
                 key == IF Has(props, choicePrefix) THEN choicePrefix ELSE baseChoicePrefix
                 lines == LinesFromKeys(id, props,
                                        IF Len(dlgKeys) > 0 THEN dlgKeys ELSE <<key>>,
                                        prev.script)
             IN IF Num(props, "choice" \o ToString(i) \o "text", 0) = 0 THEN prev
                ELSE [script |-> Append(lines, EndStep),
                      options |-> Append(prev.options,
                                         OptNext(Len(prev.script),
                                                 [kind |-> "pending", id |-> id, i |-> i]))]
      script == [built[6].script EXCEPT ![choiceIndex + 1] = Choice(prompt, built[6].options)]
  IN Call(startDuck(W, props), "start",
          <<script, Callback("choice", id, TRUE, WantsDuck(props))>>)

\* the texts of the say steps of a script, in order
SaysOf(script) ==
  LET says == SelectSeq(script, LAMBDA st : st.type = "say")
  IN [i \in 1..Len(says) |-> says[i].text]

\* the interaction id hands `script`, built from the lines of the group `prefix`,
\* to the runner on its visit number `visit`
Started(W, id, mode, prefix, visit, script) ==
  [W EXCEPT !.hist.started = [id |-> id, mode |-> mode, prefix |-> prefix,
                              visit |-> visit, press |-> W.hist.presses,
                              says |-> SaysOf(script)]]

\* the part of runMain after the shake and the sfx
RunDialogue(W, id, useIndex) ==
  LET props == PropsOf(id)
      loop == IsTrue(props, "loopdialogue")
      sequenceDialogue == IsTrue(props, "sequencedialogue")
      dialoguePrefix == _selectDialogueVariantPrefix(W, props, "dialogue")
      keys == _getNumberedKeys(props, dialoguePrefix)
      endN == IF Len(keys) > 0 THEN clampInt(Num(props, "enddialogue", Len(keys)), 1, Len(keys))
              ELSE 0
      lineIndex == IF loop THEN ((useIndex - 1) % endN) + 1 ELSE Min(useIndex, endN)
      sequence == _buildSequenceScriptFromKeys(keys, props, lineIndex, endN, id)
      key == IF lineIndex = 1 THEN dialoguePrefix ELSE dialoguePrefix \o ToString(lineIndex)
      textLine == IF Has(props, key) THEN props[key] ELSE Num(props, dialoguePrefix, 0)
      isFinal == ~loop /\ lineIndex = endN
  IN IF Num(props, "choiceprompt", 0) # 0 /\ Num(props, "choice1text", 0) # 0
       THEN Call(W, "_runChoiceInteraction", <<id>>)
     ELSE IF Len(keys) = 0 \/ IsTrue(props, "nodialogue")
       THEN Call(W, "_applyInteractionEffects", <<id>>)
     ELSE IF sequenceDialogue /\ ~loop
       THEN IF Len(sequence) = 0 THEN Call(W, "_applyInteractionEffects", <<id>>)
            ELSE Call(startDuck(Started(W, id, "sequence", dialoguePrefix, useIndex, sequence), props),
                      "start",
                      <<Append(sequence, EndStep),
                        Callback("effects", id, TRUE, WantsDuck(props))>>)
     ELSE Call(startDuck(W, props), "start",
               <<_appendLineMetaActions(id, props, key, <<>>) \o <<Say(textLine), EndStep>>,
                 Callback("effects", id, isFinal, WantsDuck(props))>>)

\* the closure runMain of _runTiledInteraction
runMain(W, id, useIndex) ==
  LET props == PropsOf(id)
      uses == clampInt(Num(props, "sfxuses", 0), 0, 999)
      allow == (~IsTrue(props, "sfxonce") \/ useIndex = 1) /\ ~(uses > 0 /\ useIndex > uses)
      Sfx(V) == IF Str(props, "sfx") # "" /\ allow THEN _playScaledSfx(V, props["sfx"]) ELSE V
  IN RunDialogue(Sfx(_stackShake(W, Num(props, "shake", 0))), id, useIndex)

\* the branch of _runTiledInteraction for an NPC that was helped already
PostHelped(W, id) ==
  LET props == PropsOf(id)
      sequenceDialogue == IsTrue(props, "sequencedialogue")
      lastChoice == Count(W.GameState.interactions.choices, id)
      cand == "choice" \o ToString(lastChoice) \o "postdialogue"
      basePrefix == IF lastChoice > 0 /\ Len(_getNumberedKeys(props, cand)) > 0
                      THEN cand ELSE "postdialogue"
      prefix == _selectDialogueVariantPrefix(W, props, basePrefix)
      full == _buildDialogueScriptFromPrefix(props, prefix, id)
      k == "__postdlg_count|" \o W.scene.key \o "|" \o id \o "|" \o prefix
      n == Count(W.GameState.flags, k) + 1
      progressive == ~sequenceDialogue /\ Len(full) > 0
      Counted(V) == IF progressive THEN _setAnyFlag(V, k, n) ELSE V
      script == IF progressive THEN <<full[Min(n, Len(full))]>> ELSE full
      Run(V) == IF Len(script) > 0
                  THEN Call(startDuck(Started(V, id, "posthelp", prefix, n, script), props),
                            "start",
                            <<Append(script, EndStep),
                              Callback("endDuck", id, FALSE, WantsDuck(props))>>)
                  ELSE V
  IN Run(Counted(W))

\* _runTiledInteraction from incrementInteractionCount on
RunCounted(W, id) ==
  LET props == PropsOf(id)
      useIndex == Count(W.GameState.interactions.counts, id) + 1
      preName == Str(props, "presfx")
      preDelay == clampInt(Num(props, "presfxdelayms", 0), 0, 3000)
      allowPre == preName = "" \/ ~IsTrue(props, "presfxonce") \/ useIndex = 1
      Later(V) == [V EXCEPT !.timers =
                     Append(@, [at |-> V.now + preDelay, fn |-> "runMain", id |-> id,
                                useIndex |-> useIndex])]
      Pre(V) == IF allowPre /\ preName # ""
                  THEN IF preDelay > 0 THEN Later(_safePlay(V, preName))
                       ELSE Call(_safePlay(V, preName), "runMain", <<id, useIndex>>)
                  ELSE Call(V, "runMain", <<id, useIndex>>)
  IN Pre(incrementInteractionCount(W, id))

_runTiledInteraction(W, id) ==
  LET props == PropsOf(id)
      helpedKey == _postHelpedKey(props)
      isAlreadyHelped == helpedKey # "" /\ isHelped(W, helpedKey)
      requireOnce == IsTrue(props, "requiresitemonce")
      currentUses == Count(W.GameState.interactions.counts, id)
      skipRequiresIfHelped ==
        IF Has(props, "requiresitemskipifhelped") THEN IsTrue(props, "requiresitemskipifhelped")
        ELSE TRUE
      reqSatisfiedFlag == _flagKey("__req_satisfied", <<W.scene.key, id>>)
      shouldCheckRequires ==
        /\ _getAnyFlag(W, reqSatisfiedFlag) # TRUE
        /\ ~(skipRequiresIfHelped /\ isAlreadyHelped)
        /\ ~(requireOnce /\ currentUses > 0)
      required == Csv(props, "requiresitem")
      Satisfied(V) == IF shouldCheckRequires THEN _setAnyFlag(V, reqSatisfiedFlag, TRUE) ELSE V
      Run(V) == IF isAlreadyHelped THEN PostHelped(V, id) ELSE RunCounted(V, id)
  IN IF id = "" THEN W
     ELSE IF isInteractionDisabled(W, id) THEN W
     ELSE IF shouldCheckRequires /\ \E n \in 1..Len(required) : ~hasItem(W, required[n])
       THEN Call(W, "start", <<<<Say(Num(props, "denydialogue", 22)), EndStep>>, NullCb>>)
     ELSE Run(Satisfied(W))

\* isEnabled of the interactable registered by _registerTiledInteractions
\* props.npcid ?? props.targetnpc ?? props.npc
NpcIdOf(props) ==
  IF Has(props, "npcid") THEN props["npcid"]
  ELSE IF Has(props, "targetnpc") THEN props["targetnpc"]
  ELSE Str(props, "npc")

isSpawnedNpcMoving(W, npcId) == npcId # "" /\ Has(W.scene._movingNpcById, npcId)

\* a variant of isEnabled that asks the forced-enable flag before the disabled set
isEnabled_forcedFirst(W, id) ==
  LET props == PropsOf(id)
      sceneKey == W.scene.key
      enabledIf == CsvEither(props, "enabledifflags", "enabledifflag")
      enabledIfAny == CsvEither(props, "enabledifanyflags", "enabledifanyflag")
      disabledIf == CsvEither(props, "disabledifflags", "disabledifflag")
      reqChoiceId == IF Has(props, "requireschoiceid") THEN props["requireschoiceid"]
                     ELSE Str(props, "requireschoice")
      want == Num(props, "requireschoicevalue", 0)
      npcId == NpcIdOf(props)
      got == Count(W.GameState.interactions.choices, reqChoiceId)
  IN IF _isInteractionForcedDisabled(W, sceneKey, id) THEN FALSE
     ELSE IF _isInteractionForcedEnabled(W, sceneKey, id) THEN TRUE
     ELSE IF isInteractionDisabled(W, id) THEN FALSE
     ELSE IF Len(enabledIf) > 0 /\ ~_flagsAllTrue(W, enabledIf) THEN FALSE
     ELSE IF Len(enabledIfAny) > 0 /\ ~_flagsAnyTrue(W, enabledIfAny) THEN FALSE
     ELSE IF Len(disabledIf) > 0 /\ _flagsAnyTrue(W, disabledIf) THEN FALSE
     ELSE IF npcId # "" /\ isSpawnedNpcMoving(W, npcId) THEN FALSE
     ELSE IF reqChoiceId # "" THEN (IF want > 0 THEN got = want ELSE got > 0)
     ELSE TRUE

isEnabled(W, id) ==
  LET props == PropsOf(id)
      sceneKey == W.scene.key
      enabledIf == CsvEither(props, "enabledifflags", "enabledifflag")
      enabledIfAny == CsvEither(props, "enabledifanyflags", "enabledifanyflag")
      disabledIf == CsvEither(props, "disabledifflags", "disabledifflag")
      reqChoiceId == IF Has(props, "requireschoiceid") THEN props["requireschoiceid"]
                     ELSE Str(props, "requireschoice")
      want == Num(props, "requireschoicevalue", 0)
      npcId == NpcIdOf(props)
      got == Count(W.GameState.interactions.choices, reqChoiceId)
  IN IF _isInteractionForcedDisabled(W, sceneKey, id) THEN FALSE
     ELSE IF isInteractionDisabled(W, id) THEN FALSE
     ELSE IF _isInteractionForcedEnabled(W, sceneKey, id) THEN TRUE
     ELSE IF Len(enabledIf) > 0 /\ ~_flagsAllTrue(W, enabledIf) THEN FALSE
     ELSE IF Len(enabledIfAny) > 0 /\ ~_flagsAnyTrue(W, enabledIfAny) THEN FALSE
     ELSE IF Len(disabledIf) > 0 /\ _flagsAnyTrue(W, disabledIf) THEN FALSE
     ELSE IF npcId # "" /\ isSpawnedNpcMoving(W, npcId) THEN FALSE
     ELSE IF reqChoiceId # "" THEN (IF want > 0 THEN got = want ELSE got > 0)
     ELSE TRUE

-----------------------------------------------------------------------------
(* systems/AutoTriggerZones.js: walk-in zones, on whole pixel coordinates and  *)
(* rectangles of even width and height.  The zones modelled carry no zone      *)
(* audio and no ducking; the camera shake leaves no state behind.              *)

Abs(n) == IF n < 0 THEN 0 - n ELSE n

\* n / d for whole numbers, rounded towards zero
Quot(n, d) == IF n < 0 THEN 0 - ((0 - n) \div d) ELSE n \div d

\* cx = obj.x + w / 2, cy = obj.y + h / 2
ZoneCenter(props) ==
  [x |-> Num(props, "x", 0) + Num(props, "width", 0) \div 2,
   y |-> Num(props, "y", 0) + Num(props, "height", 0) \div 2]

\* px >= x0 && px <= x1 && py >= y0 && py <= y1
InsideZone(pos, props) ==
  LET x0 == Num(props, "x", 0)
      y0 == Num(props, "y", 0)
  IN /\ pos.x >= x0 /\ pos.x <= x0 + Num(props, "width", 0)
     /\ pos.y >= y0 /\ pos.y <= y0 + Num(props, "height", 0)

\* Math.hypot(dx, dy) || 1; exact when dx or dy is 0, as in every position the
\* specifications put the player at, and the larger of the two otherwise
Hypot(dx, dy) ==
  LET d == IF dx = 0 THEN Abs(dy) ELSE IF dy = 0 THEN Abs(dx) ELSE Max(Abs(dx), Abs(dy))
  IN IF d = 0 THEN 1 ELSE d

\* the push pulls the player towards the centre of the zone
pushedFrom_inward(pos, center, push) ==
  LET dx == pos.x - center.x
      dy == pos.y - center.y
      d == Hypot(dx, dy)
  IN [x |-> pos.x - Quot(dx * push, d), y |-> pos.y - Quot(dy * push, d)]

\* px + (dx / d) * push, py + (dy / d) * push
pushedFrom(pos, center, push) ==
  LET dx == pos.x - center.x
      dy == pos.y - center.y
      d == Hypot(dx, dy)
  IN [x |-> pos.x + Quot(dx * push, d), y |-> pos.y + Quot(dy * push, d)]

\* the deny cooldown is never armed
setDenyCooldownUntil_never(W, cd) == W

\* scene._denyCooldownUntil = now + cd
setDenyCooldownUntil(W, cd) == [W EXCEPT !.scene._denyCooldownUntil = W.now + cd]

\* a deny zone was entered, and feedback was given (with the window cd) or not
DenyEntry(W, id, denied, cd) ==
  [W EXCEPT !.hist.deny =
     [entries |-> @.entries + 1,
      zone |-> id,
      events |-> @.events + (IF denied THEN 1 ELSE 0),
      suppressed |-> @.suppressed + (IF denied THEN 0 ELSE 1),
      lastDenied |-> denied,
      any |-> @.any \/ denied,
      lastAt |-> IF denied THEN W.now ELSE @.lastAt,
      window |-> IF denied THEN cd ELSE @.window]]

\* for (const lname of splitCsv(namesCsv)) setLayerHidden(scene.scene.key, lname, !visible)
applyLayerVisibility(W, names, visible) ==
  ForEach(LAMBDA V, lname :
            IF Has(V.scene.layers, lname)
              THEN setLayerHidden(setVisible(V, lname, visible), V.scene.key, lname, ~visible)
              ELSE V,
          W, names)

\* the zones modelled have no fade-in; the sound named exists
startZoneAudio(W, id, props) ==
  LET name == IF Has(props, "zonesfx") THEN props["zonesfx"]
              ELSE IF Has(props, "zonemusic") THEN props["zonemusic"]
              ELSE Str(props, "zoneambience")
      Duck(V) == IF IsTrue(props, "zoneduckmusic")
                   THEN [V EXCEPT !.scene._duckReasons =
                            Put(@, "__zone_" \o id,
                                clampInt(Num(props, "zoneduckfactor", 35), 0, 100))]
                   ELSE V
  IN IF Has(W.scene._zoneAudioById, id) \/ name = "" THEN W
     ELSE Duck([W EXCEPT !.scene._zoneAudioById = Put(@, id, name),
                         !.scene.playing = @ \cup {name},
                         !.hist.zoneGen = IF Num(props, "zonefadeoutms", 0) > 0
                                            THEN Put(@, id, Count(@, id) + 1) ELSE @])

\* the steps of a fade
fadeSteps == 8

\* Math.max(10, Math.floor(fadeOutMs / steps))
fadeStepMs(fadeOutMs) == Max(10, fadeOutMs \div fadeSteps)

\* the last callback of the fade timer of stopZoneAudio: it stops the handle
\* the timer was made for (gen tells whether that is the handle the map holds
\* now) and deletes whatever the map holds under the id.  The callbacks before
\* it only lower the volume.
zoneFadeEnd(W, id, gen) ==
  IF ~Has(W.scene._zoneAudioById, id) THEN W
  ELSE [W EXCEPT !.scene.playing = IF gen = Count(W.hist.zoneGen, id)
                                     THEN @ \ {W.scene._zoneAudioById[id]} ELSE @,
                 !.scene._zoneAudioById = [k \in DOMAIN @ \ {id} |-> @[k]]]

stopZoneAudio(W, id, props) ==
  LET fadeOutMs == Num(props, "zonefadeoutms", 0) IN
  IF ~Has(W.scene._zoneAudioById, id) THEN W
  ELSE IF fadeOutMs > 0
    THEN [W EXCEPT !.timers =
            Append(@, [at |-> W.now + fadeSteps * fadeStepMs(fadeOutMs), fn |-> "zoneFade",
                       id |-> id, useIndex |-> Count(W.hist.zoneGen, id)])]
  ELSE [W EXCEPT !.scene.playing = @ \ {W.scene._zoneAudioById[id]},
                 !.scene._zoneAudioById = [k \in DOMAIN @ \ {id} |-> @[k]]]

stopZoneDuck(W, id) ==
  [W EXCEPT !.scene._duckReasons = [k \in DOMAIN @ \ {"__zone_" \o id} |-> @[k]]]

\* the deny block of the zone id that was just entered at the position px
denyZone(W, id, px) ==
  LET props == PropsOf(id)
      cd == Num(props, "denycooldownms", 600)
      denyDialogue == Num(props, "denydialogue", 19)
      Sound(V) == IF Str(props, "denysfx") # ""
                    THEN [V EXCEPT !.scene.oneShots = @ \cup {props["denysfx"]}] ELSE V
      Reposition(V) ==
        IF Str(props, "denymode") = "push"
          THEN [V EXCEPT !.scene.player =
                  pushedFrom(px, ZoneCenter(props), Num(props, "denypush", 12))]
          ELSE [V EXCEPT !.scene.player = V.scene._prevPlayerPos]
      Talk(V) == IF denyDialogue # 0
                   THEN Call(V, "start", <<<<Say(denyDialogue), EndStep>>, NullCb>>)
                   ELSE V
  IN IF W.now >= W.scene._denyCooldownUntil
       THEN Talk(Reposition(Sound(setDenyCooldownUntil(DenyEntry(W, id, TRUE, cd), cd))))
       ELSE DenyEntry(W, id, FALSE, cd)

\* the body of the loop over scene.interactables, for the player position px
isZoneLike(props) ==
  \/ IsTrue(props, "autofire") \/ IsTrue(props, "trigger") \/ IsTrue(props, "deny")
  \/ Str(props, "zonesfx") # "" \/ Str(props, "zonemusic") # ""
  \/ Str(props, "zoneambience") # ""

ZoneStep(px, W, id) ==
  LET props == PropsOf(id)
      isTrigger == IsTrue(props, "autofire") \/ IsTrue(props, "trigger")
      inside == InsideZone(px, props)
      wasInside == id \in W.scene._triggerInside
      hasDialogue == Has(props, "dialogue") \/ Has(props, "postdialogue")
      hasFx == Str(props, "sfx") # "" \/ Str(props, "presfx") # ""
                 \/ Str(props, "zonesfx") # "" \/ Has(props, "shake")
      Entered(V) == [V EXCEPT !.scene._triggerInside = @ \cup {id},
                              !.scene._triggerExitArmed = @ \cup {id},
                              !.hist.entered = Put(@, id, [layers |-> V.scene.layers,
                                                           hidden |-> V.GameState.hiddenLayers])]
      Layers(V) ==
        applyLayerVisibility(
          applyLayerVisibility(V, CsvEither(props, "hidelayers", "hidelayer"), FALSE),
          CsvEither(props, "showlayers", "showlayer"), TRUE)
      Trigger(V) == IF isTrigger /\ (hasDialogue \/ hasFx)
                      THEN Call(V, "_runTiledInteraction", <<id>>) ELSE V
      Deny(V) == IF IsTrue(props, "deny") THEN denyZone(V, id, px) ELSE V
      Once(V) == IF IsTrue(props, "triggeronce") \/ IsTrue(props, "once")
                   THEN disableInteraction(V, id) ELSE V
      ExitLayers(V) ==
        IF id \in V.scene._triggerExitArmed
          THEN applyLayerVisibility(
                 applyLayerVisibility(
                   [V EXCEPT !.scene._triggerExitArmed = @ \ {id}],
                   CsvEither(props, "exithidelayers", "exithidelayer"), FALSE),
                 CsvEither(props, "exitshowlayers", "exitshowlayer"), TRUE)
          ELSE V
      Left(V) == stopZoneDuck(stopZoneAudio(
                   ExitLayers([V EXCEPT !.scene._triggerInside = @ \ {id}]), id, props), id)
  IN IF id = "" \/ ~isZoneLike(props) THEN W
     ELSE IF inside /\ ~wasInside
       THEN Once(Deny(Trigger(startZoneAudio(Layers(Entered(W)), id, props))))
     ELSE IF ~inside /\ wasInside THEN Left(W)
     ELSE W

updateAutoTriggerZones(W) ==
  LET px == W.scene.player
      \* the objects the loop does not skip
      objects == SelectSeq(LayerOrder[W.scene.key],
                           LAMBDA id : id \in W.scene.interactables /\ isZoneLike(PropsOf(id)))
  IN IF ~canWorldInteract(W) THEN W
     ELSE ForEach(LAMBDA V, id : ZoneStep(px, V, id), W, objects)

\* a frame; baseUpdateMovement only sets the velocity of the player's body, so
\* the position does not change between the assignment of _prevPlayerPos and
\* the zone update; while a dialogue is open the frame ends before both
\* the length of a frame, and with it of a step of the physics world
FrameMs == 50

defaultNpcSpeed == 40
defaultArriveDist == 2
minArriveDist == 6

\* the point markers of the layer "Points"
Points ==
  [ npc_glad_wp1 |-> [x |-> 40, y |-> 24],
    npc_glad_wp2 |-> [x |-> 40, y |-> 40],
    npc_glad_wp3 |-> [x |-> 60, y |-> 40] ]

_resolveWaypointPoints(names) ==
  LET found == SelectSeq(names, LAMBDA nm : nm \in DOMAIN Points)
  IN [i \in 1..Len(found) |-> Points[found[i]]]

Without(map, key) == [k \in DOMAIN map \ {key} |-> map[k]]

\* opts = { speed }; the other options keep their defaults
moveSpawnedNpcAlongWaypoints(W, npcId, waypoints, speed) ==
  LET points == _resolveWaypointPoints(waypoints)
  IN IF npcId = "" THEN W
     ELSE IF ~Has(W.scene.npcs, npcId) THEN W
     ELSE IF points = <<>> THEN W
     ELSE [W EXCEPT !.scene._movingNpcById =
              Put(@, npcId, [points |-> points, idx |-> 0,
                             speed |-> IF speed = 0 THEN defaultNpcSpeed ELSE speed,
                             arriveDist |-> defaultArriveDist])]

moveSpawnedNpcToPoint(W, npcId, pointName, speed) ==
  IF npcId = "" \/ pointName = "" THEN W
  ELSE moveSpawnedNpcAlongWaypoints(W, npcId, <<pointName>>, speed)

\* a variant of the arrival that stops the NPC where it is
arriveAt_unsnapped(npc, target) == [npc EXCEPT !.vx = 0, !.vy = 0]

\* spr.x = target.x; spr.y = target.y; body.reset(spr.x, spr.y)
arriveAt(npc, target) == [x |-> target.x, y |-> target.y, vx |-> 0, vy |-> 0]

\* the body of the loop of updateMovingNpcs for one entry of _movingNpcById
updateMovingNpc(W, id) ==
  LET st == W.scene._movingNpcById[id]
      Forget(V) == [V EXCEPT !.scene._movingNpcById = Without(@, id)]
  IN IF ~Has(W.scene.npcs, id) THEN Forget(W)
     ELSE
       LET spr == W.scene.npcs[id]
           pts == st.points
           i == st.idx
       IN IF pts = <<>> \/ i >= Len(pts)
            THEN Forget([W EXCEPT !.scene.npcs[id].vx = 0, !.scene.npcs[id].vy = 0])
          ELSE
            LET target == pts[i + 1]
                dx == target.x - spr.x
                dy == target.y - spr.y
                dist == Hypot(dx, dy)
                arrive == Max(minArriveDist, st.arriveDist)
                spd == Max(1, st.speed)
                \* pixels per second to pixels per step of the physics world
                PerFrame(v) == Quot(v * FrameMs, 1000)
            IN IF dx * dx + dy * dy <= arrive * arrive
                    \/ (Abs(dx) <= arrive /\ Abs(dy) <= arrive)
                 THEN LET V == [W EXCEPT !.scene.npcs[id] = arriveAt(spr, target),
                                         !.scene._movingNpcById[id].idx = i + 1]
                      IN IF i + 1 >= Len(pts) THEN Forget(V) ELSE V
               ELSE [W EXCEPT !.scene.npcs[id].vx = PerFrame(Quot(dx * spd, dist)),
                              !.scene.npcs[id].vy = PerFrame(Quot(dy * spd, dist))]

\* the ids of a map in the order of a walk over it (one order is enough: the
\* entries do not read each other)
RECURSIVE KeysOf(_)
KeysOf(map) ==
  IF DOMAIN map = {} THEN <<>>
  ELSE LET k == CHOOSE k \in DOMAIN map : TRUE IN <<k>> \o KeysOf(Without(map, k))

updateMovingNpcs(W) ==
  ForEach(LAMBDA V, id : updateMovingNpc(V, id), W, KeysOf(W.scene._movingNpcById))

\* the step of the physics world that precedes update(): every body moves by
\* its velocity, and the sprite follows its body
\* a variant of the physics step in which a wall holds every NPC back
physicsStep_blocked(W) == W

physicsStep(W) ==
  [W EXCEPT !.scene.npcs = [n \in DOMAIN @ |-> [@[n] EXCEPT !.x = @ + W.scene.npcs[n].vx,
                                                            !.y = @ + W.scene.npcs[n].vy]]]

\* delta is a number here; NaN and the infinities are not modelled
_tickGlobalRealTime(W) ==
  LET delta == W.scene.loopDelta
  IN IF delta <= 0 THEN W ELSE [W EXCEPT !.GameState.realTimeMs = @ + delta]

\* a variant of the frame in which the clock also runs while a dialogue is open
baseUpdateFrame_tickingAlways(W) ==
  IF W.dialogue.active THEN updateMovingNpcs(_tickGlobalRealTime(W))
  ELSE updateMovingNpcs(updateAutoTriggerZones(_tickGlobalRealTime(W)))

\* the statements run one after the other: the world the zone update leaves
\* is the one value U that the update of the NPCs reads
baseUpdateFrame(W) ==
  IF W.dialogue.active THEN updateMovingNpcs(W)
  ELSE CHOOSE R \in {updateMovingNpcs(U) :
                       U \in {updateAutoTriggerZones(
                                [_tickGlobalRealTime(W)
                                   EXCEPT !.scene._prevPlayerPos = W.scene.player])}} : TRUE

-----------------------------------------------------------------------------
(* Method calls *)

Call(W, name, args) ==
  CASE name = "start" -> start(W, args[1], args[2])
    [] name = "stop" -> stop(W, args[1])
    [] name = "_runCurrentStep" -> _runCurrentStep(W)
    [] name = "InvokeCallback" -> InvokeCallback(W, args[1])
    [] name = "RunAction" -> RunAction(W, args[1])
    [] name = "_onZ" -> _onZ(W)
    [] name = "_onUp" -> _onUp(W)
    [] name = "_onDown" -> _onDown(W)
    [] name = "_onEsc" -> _onEsc(W)
    [] name = "typingCallback" -> typingCallback(W)
    [] name = "pauseCallback" -> pauseCallback(W)
    [] name = "_applyInteractionEffects" -> _applyInteractionEffects(W, args[1])
    [] name = "_applyChoiceEffects" -> _applyChoiceEffects(W, args[1], args[2])
    [] name = "_runChoiceInteraction" -> _runChoiceInteraction(W, args[1])
    [] name = "runMain" -> runMain(W, args[1], args[2])
    [] name = "_runTiledInteraction" -> _runTiledInteraction(W, args[1])
    [] name = "baseUpdateFrame" -> baseUpdateFrame(W)

-----------------------------------------------------------------------------
(* The state machine *)

World ==
  [now |-> 0, timers |-> timers, dialogue |-> dialogue,
   GameState |-> GameState, scene |-> scene, hist |-> hist]

Becomes(W) ==
  /\ timers' = W.timers
  /\ dialogue' = W.dialogue
  /\ GameState' = W.GameState
  /\ scene' = W.scene
  /\ hist' = W.hist

\* scripts of the kinds the scenes hand to the runner
ScriptTalk ==
  << Say(29), ActionStep([op |-> "sfx", name |-> "blip", persist |-> FALSE]), Say(1), EndStep >>
ScriptChoice ==
  << Say(1),
     Choice(2, << OptNext(4, [kind |-> "probe", id |-> "", i |-> 0]), OptFall(NoSelect),
                  OptNext(4, NoSelect) >>),
     Say(1), EndStep, Say(1), EndStep >>
ScriptLongPrompt ==
  << Choice(28, << OptNext(2, NoSelect), OptNext(3, NoSelect) >>), Say(1), Say(1), EndStep >>
ScriptPause ==
  << Say(1), Pause(700), Choice(2, << OptFall(NoSelect), OptNext(5, NoSelect) >>),
     Say(1), Say(1), EndStep >>
ScriptOverflow == << Pause(defaultPauseMs), [type |-> ""], Say(1) >>

Probe == [NullCb EXCEPT !.kind = "probe"]

Init ==
  /\ timers = <<>>
  /\ dialogue = DialogueBox0
  /\ GameState = GameState0
  /\ scene = Scene0
  /\ hist = Hist0

Starts ==
  ({ScriptTalk, ScriptChoice, ScriptLongPrompt, ScriptPause} \X {Probe})
    \cup ({ScriptOverflow} \X {NullCb})

Start(script, cb) ==
  /\ hist.run < MaxRuns
  /\ Becomes(Call(World, "start", <<script, cb>>))

KeyZ == dialogue.keyHandlersBound /\ Becomes(Call(World, "_onZ", <<>>))
KeyUp == dialogue.keyHandlersBound /\ Becomes(Call(World, "_onUp", <<>>))
KeyDown == dialogue.keyHandlersBound /\ Becomes(Call(World, "_onDown", <<>>))
KeyEsc == dialogue.keyHandlersBound /\ Becomes(Call(World, "_onEsc", <<>>))

StopCall(callOnComplete) == Becomes(Call(World, "stop", <<callOnComplete>>))

TypingTick ==
  /\ dialogue.typingEvent.on
  /\ dialogue.typingEvent.at <= 0
  /\ Becomes(Call(World, "typingCallback", <<>>))

FirePause(k) ==
  /\ k \in 1..Len(timers)
  /\ timers[k].at <= 0
  /\ timers[k].fn = "pause"
  /\ Becomes(Call([World EXCEPT !.timers = RemoveAt(@, k)], "pauseCallback", <<>>))

Due ==
  \/ dialogue.typingEvent.on /\ dialogue.typingEvent.at <= 0
  \/ \E k \in 1..Len(timers) : timers[k].at <= 0

Deadlines ==
  {timers[k].at : k \in 1..Len(timers)}
    \cup (IF dialogue.typingEvent.on THEN {dialogue.typingEvent.at} ELSE {})
    \cup {dialogue.nextInputReadyAt, dialogue.choiceConfirmReadyAt,
          GameState.input.interactLockUntil, scene._denyCooldownUntil}

\* the clock advances by d: every time stamp is d nearer (or has passed)
Elapse(W, d) ==
  [W EXCEPT !.timers = [k \in 1..Len(@) |-> [@[k] EXCEPT !.at = @ - d]],
            !.dialogue.typingEvent.at = IF W.dialogue.typingEvent.on THEN @ - d ELSE @,
            !.dialogue.nextInputReadyAt = Max(@ - d, 0),
            !.dialogue.choiceConfirmReadyAt = Max(@ - d, 0),
            !.GameState.input.interactLockUntil = Max(@ - d, 0),
            !.scene._shakeEndAt = Max(@ - d, 0),
            !.scene._denyCooldownUntil = Max(@ - d, 0),
            !.hist.deny.lastAt = Max(@ - d, 0 - W.hist.deny.window),
            !.hist.lastStopAt = Max(@ - d, -stopLockMs),
            !.hist.cooldownUntil = Max(@ - d, 0),
            !.hist.pressed = FALSE]

\* a frame: the clock advances by at most StepMs, and at most to the next deadline
Tick ==
  /\ ~Due
  /\ Becomes(Elapse(World, SetMin({StepMs} \cup {t \in Deadlines : t > 0})))

Next ==
  \/ \E s \in Starts : Start(s[1], s[2])
  \/ KeyZ
  \/ KeyUp
  \/ KeyDown
  \/ KeyEsc
  \/ \E c \in BOOLEAN : StopCall(c)
  \/ TypingTick
  \/ \E k \in 1..Len(timers) : FirePause(k)
  \/ Tick

Spec == Init /\ [][Next]_vars

-----------------------------------------------------------------------------
(* The explore scene: the player walks up to an interactable and presses the  *)
(* interact key; the dialogue runner is driven by the same keys.              *)

\* baseUpdateFrame reaching baseUpdateInteract with the interact key just down
\* and the interactable `id` the nearest one
Interact(id) ==
  /\ ~dialogue.active
  /\ ~hist.pressed
  /\ hist.presses < MaxPresses
  /\ id \in scene.interactables
  /\ isEnabled(World, id)
  /\ canWorldInteract(World)
  /\ Becomes(Call([World EXCEPT !.hist.presses = @ + 1, !.hist.pressed = TRUE],
                  "_runTiledInteraction", <<id>>))

\* the delayedCall(preDelay, runMain) of _runTiledInteraction comes due
FireRunMain(k) ==
  /\ k \in 1..Len(timers)
  /\ timers[k].at <= 0
  /\ timers[k].fn = "runMain"
  /\ Becomes(Call([World EXCEPT !.timers = RemoveAt(@, k)],
                  "runMain", <<timers[k].id, timers[k].useIndex>>))

\* the player leaves the scene and comes back: the scene object is reused, shut
\* down (its clock events and scene-owned sounds go) and created again by baseCreate
_npcPosFlag(sceneKey, id) == _flagKey("__npc_pos", <<sceneKey, id>>)

_persistNpcTransforms(W, id) ==
  IF id = "" THEN W
  ELSE [W EXCEPT !.GameState.npcPos =
           Put(@, _npcPosFlag(W.scene.key, id),
               [x |-> W.scene.npcs[id].x, y |-> W.scene.npcs[id].y])]

_persistAllNpcTransforms(W) ==
  ForEach(LAMBDA V, id : _persistNpcTransforms(V, id), W, KeysOf(W.scene.npcs))

\* a variant that leaves the NPC where the level spawns it
_reapplyNpcTransforms_spawn(W, id) == W

_reapplyNpcTransforms(W, id) ==
  LET posKey == _npcPosFlag(W.scene.key, id)
  IN IF id = "" \/ ~Has(W.scene.npcs, id) THEN W
     ELSE IF Has(W.GameState.npcPos, posKey)
       THEN [W EXCEPT !.scene.npcs[id].x = W.GameState.npcPos[posKey].x,
                      !.scene.npcs[id].y = W.GameState.npcPos[posKey].y]
     ELSE W

\* create() of the level makes the NPC at its spawn point and registers it
registerSpawnedNpc(W, id) ==
  IF id = "" THEN W
  ELSE _reapplyNpcTransforms([W EXCEPT !.scene.npcs = Put(@, id, Scene0.npcs[id])], id)

\* what leaving the level and entering it again does to the world: the shutdown
\* hooks of the scene, then create() on the same scene object; GameState and
\* the fields that only the constructor sets stay
reenter(W) ==
  LET left == _persistAllNpcTransforms(W)
      spawned == ForEach(LAMBDA V, id : registerSpawnedNpc(V, id),
                         [left EXCEPT !.scene.npcs = EmptyMap], KeysOf(W.scene.npcs))
  IN
  _buildFromTiled([spawned EXCEPT !.timers = <<>>,
                            !.dialogue = DialogueBox0,
                            !.scene.interactables = DOMAIN Levels[W.scene.key],
                            !.scene.playing = {},
                            !.scene._musicDuckStack = <<>>,
                            !.scene._sceneMusicKey = "",
                            !.scene._zoneAudioById = EmptyMap,
                            !.scene.player = Scene0.player,
                            !.scene._prevPlayerPos = Scene0._prevPlayerPos,
                            !.hist.entries = @ + 1,
                            !.hist.tracked = {}])

Reenter ==
  /\ ~dialogue.active
  /\ hist.entries < MaxEntries
  /\ Becomes(reenter(World))

NextScene ==
  \/ \E id \in InteractionIds : Interact(id)
  \/ KeyZ
  \/ KeyUp
  \/ KeyDown
  \/ KeyEsc
  \/ TypingTick
  \/ \E k \in 1..Len(timers) : FireRunMain(k)
  \/ Reenter
  \/ Tick

SpecScene == Init /\ [][NextScene]_vars

\* the same scene class running the second level
InitPark ==
  /\ timers = <<>>
  /\ dialogue = DialogueBox0
  /\ GameState = GameState0
  /\ scene = [Scene0 EXCEPT !.key = "ParkScene", !._props = Levels["ParkScene"],
                            !.interactables = DOMAIN ParkInteractions]
  /\ hist = Hist0

SpecPark == InitPark /\ [][NextScene]_vars

-----------------------------------------------------------------------------
(* The inventory: addItem and removeItem called with any item name and any    *)
(* positive count, and the item effects of _applyInteractionEffects.          *)

Items == {"rose", "seed", "berry", ""}

AddItem(item, count) ==
  /\ Count(GameState.inventory, item) + count <= MaxHeld
  /\ Becomes(addItem(World, item, count))

RemoveItem(item, count) == Becomes(removeItem(World, item, count))

ApplyEffects(id) ==
  /\ Count(hist.applied, id) < MaxApplied
  /\ \A item \in Items : Count(GameState.inventory, item) < MaxHeld
  /\ Becomes(Call(World, "_applyInteractionEffects", <<id>>))

NextInventory ==
  \/ \E item \in Items, count \in 1..MaxCount : AddItem(item, count)
  \/ \E item \in Items, count \in 1..MaxCount : RemoveItem(item, count)
  \/ \E id \in InteractionIds : ApplyEffects(id)

SpecInventory == Init /\ [][NextInventory]_vars

-----------------------------------------------------------------------------
(* What decides isEnabled: the quest flags, the forced overrides, the disabled *)
(* set, the recorded choice and the NPCs on the move, each changed as the      *)
(* effects of interactions in this and other scenes change them.               *)

GateFlags == {"a", "b", "c", "d"}
GateIds == {"door"}
NpcIds == {"Glad"}

SetFlag(f, v) == Becomes(_setAnyFlag(World, f, v))

ForceDisable(id, b) == Becomes(_setInteractionForcedDisabled(World, scene.key, id, b))

ForceEnable(id, b) == Becomes(_setInteractionForcedEnabled(World, scene.key, id, b))

SetDisabled(id, b) == Becomes(_setInteractionDisabled(World, id, b))

RecordChoice(id, i) ==
  Becomes([World EXCEPT !.GameState.interactions.choices = Put(@, id, i)])

MoveNpc(n) == Becomes(moveSpawnedNpcToPoint(World, n, "npc_glad_wp1", 0))

NpcArrives(n) ==
  /\ Has(scene._movingNpcById, n)
  /\ Becomes(Call(physicsStep(World), "baseUpdateFrame", <<>>))

NextGate ==
  \/ \E f \in GateFlags, v \in BOOLEAN : SetFlag(f, v)
  \/ \E id \in GateIds, b \in BOOLEAN : ForceDisable(id, b)
  \/ \E id \in GateIds, b \in BOOLEAN : ForceEnable(id, b)
  \/ \E id \in GateIds, b \in BOOLEAN : SetDisabled(id, b)
  \/ \E i \in 1..2 : RecordChoice("npc", i)
  \/ \E n \in NpcIds : MoveNpc(n)
  \/ \E n \in NpcIds : NpcArrives(n)

SpecGate == Init /\ [][NextGate]_vars

-----------------------------------------------------------------------------
(* Flag keys: a once guard is set under the key its codec builds from the     *)
(* category and the parts (scene key, interaction id, item), and read back    *)
(* under the key built for the tuple in question.                             *)

KeyPrefixes == {"__give_once", "__take_once"}
KeyParts == {"", "a", "a__a", "a|a"}
Codecs == {"_flagKey", "flagKey"}
Guards == [codec : Codecs, prefix : KeyPrefixes, parts : KeyParts \X KeyParts]

KeyOf(g) ==
  IF g.codec = "_flagKey" THEN _flagKey(g.prefix, g.parts)
  ELSE flagKey(<<g.prefix>> \o g.parts)

\* this._setAnyFlag(this._flagKey(...), true) / flags[flagKey(...)] = true
SetGuard(g) ==
  /\ Cardinality(hist.guards) < MaxGuards
  /\ Becomes([_setAnyFlag(World, KeyOf(g), TRUE) EXCEPT !.hist.guards = @ \cup {g}])

NextKeys == \E g \in Guards : SetGuard(g)

SpecKeys == Init /\ [][NextKeys]_vars

-----------------------------------------------------------------------------
(* Numbered property groups: an object of the map carries any of the keys     *)
(* line, line2, line3, ... each with a text (blank or not), and a collector   *)
(* reads the group.                                                           *)

LineKey(n) == IF n = 1 THEN "line" ELSE "line" \o ToString(n)

PropTables ==
  UNION {[{LineKey(n) : n \in S} -> {0, 1}] : S \in SUBSET (1..MaxLines)}

InitTables ==
  /\ timers = <<>>
  /\ dialogue = DialogueBox0
  /\ GameState = GameState0
  /\ \E T \in PropTables : scene = [Scene0 EXCEPT !.parsed = T]
  /\ hist = Hist0

CollectKeys ==
  Becomes([World EXCEPT !.hist.collected =
             [by |-> "_getNumberedKeys", out |-> _getNumberedKeys(scene.parsed, "line")]])

CollectLines ==
  Becomes([World EXCEPT !.hist.collected =
             [by |-> "_getNumberedPropLines",
              out |-> _getNumberedPropLines(scene.parsed, "line")]])

NextTables == CollectKeys \/ CollectLines

SpecTables == InitTables /\ [][NextTables]_vars

-----------------------------------------------------------------------------
(* parseProps on raw Tiled objects.  A name is a sequence of characters; the  *)
(* value of obj.properties is an array of entries, an object of entries or     *)
(* something else; an item of an array may lack a name (a null item, or one    *)
(* without the field).                                                         *)

\* the largest number of entries of obj.properties
MaxProps == 2

Whitespace == {" "}

toLowerCase(chars) ==
  LET lower == [c \in {"I", "D", "X"} |-> IF c = "I" THEN "i" ELSE IF c = "D" THEN "d" ELSE "x"]
  IN [i \in 1..Len(chars) |-> IF chars[i] \in DOMAIN lower THEN lower[chars[i]] ELSE chars[i]]

RECURSIVE trimStart(_)
trimStart(chars) ==
  IF chars # <<>> /\ Head(chars) \in Whitespace THEN trimStart(Tail(chars)) ELSE chars

RECURSIVE trimEnd(_)
trimEnd(chars) ==
  IF chars # <<>> /\ chars[Len(chars)] \in Whitespace
    THEN trimEnd(SubSeq(chars, 1, Len(chars) - 1)) ELSE chars

trim(chars) == trimEnd(trimStart(chars))

\* the characters as one string, the key of the map
RECURSIVE Text(_)
Text(chars) == IF chars = <<>> THEN "" ELSE Head(chars) \o Text(Tail(chars))

\* a variant of the key of the keyed-object branch that keeps the case
propKey_caseKept(chars) == Text(trim(chars))

\* String(k0 ?? "").trim().toLowerCase()
propKey(chars) == Text(toLowerCase(trim(chars)))

parseProps(obj) ==
  LET raw == obj.properties
      items == raw.items
      \* for (const p of raw): String(p?.name ?? "")
      fromArray[i \in 0..Len(items)] ==
        IF i = 0 THEN EmptyMap
        ELSE LET k == Text(toLowerCase(trim(IF items[i].named THEN items[i].name ELSE <<>>)))
             IN IF k = "" THEN fromArray[i - 1] ELSE Put(fromArray[i - 1], k, items[i].value)
      \* for (const [k0, v] of Object.entries(raw))
      fromObject[i \in 0..Len(items)] ==
        IF i = 0 THEN EmptyMap
        ELSE LET k == propKey(items[i].name)
             IN IF k = "" THEN fromObject[i - 1] ELSE Put(fromObject[i - 1], k, items[i].value)
  IN IF raw.kind = "array" THEN fromArray[Len(items)]
     ELSE IF raw.kind = "object" THEN fromObject[Len(items)]
     ELSE EmptyMap

\* the names of the properties of the raw objects
RawNames ==
  { <<>>, <<" ">>, <<"i", "d">>, <<"I", "d">>, <<" ", "i", "d">>, <<"I", "D", " ">>,
    <<"x">>, <<" ", "X">> }

\* an entry with a name and a value, and the items of an array that have no name
Entries == [named : {TRUE}, name : RawNames, value : {1, 2}]
Nameless == [named : {FALSE}, name : {<<>>}, value : {0, 1}]

SeqsUpTo(S, n) == UNION {[1..m -> S] : m \in 0..n}

\* an object has every key once
DistinctNames(items) ==
  \A i, j \in 1..Len(items) : items[i].name = items[j].name => i = j

RawObjects ==
  {[properties |-> [kind |-> "array", items |-> a]] :
      a \in SeqsUpTo(Entries \cup Nameless, MaxProps)}
  \cup {[properties |-> [kind |-> "object", items |-> e]] :
      e \in {e \in SeqsUpTo(Entries, MaxProps) : DistinctNames(e)}}
  \cup {[properties |-> [kind |-> k, items |-> <<>>]] :
      k \in {"undefined", "null", "number", "string"}}

InitProps ==
  /\ timers = <<>>
  /\ dialogue = DialogueBox0
  /\ GameState = GameState0
  /\ \E obj \in RawObjects : scene = [Scene0 EXCEPT !._tiledObj = obj]
  /\ hist = Hist0

Parse ==
  /\ hist.collected.by = ""
  /\ Becomes([World EXCEPT !.scene.parsed = parseProps(scene._tiledObj),
                           !.hist.collected = [by |-> "parseProps", out |-> <<>>]])

NextProps == Parse

SpecProps == InitProps /\ [][NextProps]_vars

-----------------------------------------------------------------------------
(* Post-help variants: the sage of the third level is visited while companions *)
(* join and leave, choices are recorded for it by the effects of other         *)
(* interactions, and the player leaves the level and comes back.               *)

Companions == {"saga", "aloise"}

PlazaChoices == 1..2

SetFollower(name, enabled) == Becomes(_setFollowerFlag(World, name, enabled))

NextPlaza ==
  \/ \E name \in Companions, b \in BOOLEAN : SetFollower(name, b)
  \/ \E id \in InteractionIds, i \in PlazaChoices : RecordChoice(id, i)
  \/ \E id \in InteractionIds : Interact(id)
  \/ KeyZ
  \/ KeyEsc
  \/ TypingTick
  \/ Reenter
  \/ Tick

InitPlaza ==
  /\ timers = <<>>
  /\ dialogue = DialogueBox0
  /\ GameState = GameState0
  /\ scene = [Scene0 EXCEPT !.key = "PlazaScene", !._props = Levels["PlazaScene"],
                            !.interactables = DOMAIN PlazaInteractions]
  /\ hist = Hist0

SpecPlaza == InitPlaza /\ [][NextPlaza]_vars

-----------------------------------------------------------------------------
(* Deny zones: the player walks in and out of the two zones of the fourth      *)
(* level, frame by frame, and closes the deny dialogue when one opens.         *)

\* a point outside both zones, one in the pit only, one in both, one in the fence only
Positions == {[x |-> px, y |-> 4] : px \in {0, 8, 13, 18}}

\* the physics step has carried the player to the position `to`, and the frame runs
Move(to) ==
  /\ ~dialogue.active
  /\ hist.moves < MaxMoves
  /\ Becomes(Call([World EXCEPT !.scene.player = to, !.hist.moves = @ + 1],
                  "baseUpdateFrame", <<>>))

NextZones ==
  \/ \E to \in Positions : Move(to)
  \/ KeyZ
  \/ KeyEsc
  \/ TypingTick
  \/ Tick

InitZones ==
  /\ timers = <<>>
  /\ dialogue = DialogueBox0
  /\ GameState = GameState0
  /\ scene = [Scene0 EXCEPT !.key = "HarborScene", !._props = Levels["HarborScene"],
                            !.interactables = DOMAIN HarborInteractions]
  /\ hist = Hist0

SpecZones == InitZones /\ [][NextZones]_vars

\* the lengths of a frame the game loop reports
Deltas == {0, 16, 33}

\* a frame of the given length in which the player stands still; it runs
\* whether a dialogue is open or not
ClockFrame(d) ==
  /\ hist.moves < MaxMoves
  /\ Becomes(Call([World EXCEPT !.scene.loopDelta = d, !.hist.moves = @ + 1],
                  "baseUpdateFrame", <<>>))

NextClock ==
  \/ \E d \in Deltas : ClockFrame(d)
  \/ NextZones

SpecClock == InitZones /\ [][NextClock]_vars

\* where the actor can be in the cave level: at the spawn point or in the cave
CavePositions == {Scene0.player, [x |-> 14, y |-> 4]}

\* the objects of the cave level the actor can face and press Z at; they stand
\* at the spawn point, out of reach from the cave
CaveUsable == {"lever", "guide"}

Use(id) == scene.player = Scene0.player /\ Interact(id)

NextCave ==
  \/ \E to \in CavePositions : Move(to)
  \/ \E id \in CaveUsable : Use(id)
  \/ KeyZ
  \/ KeyEsc
  \/ TypingTick
  \/ Reenter
  \/ Tick

InitCave ==
  /\ timers = <<>>
  /\ dialogue = DialogueBox0
  /\ hist = Hist0
  /\ \E W \in {_buildFromTiled([now |-> 0, timers |-> <<>>, dialogue |-> DialogueBox0,
                                 GameState |-> GameState0,
                                 scene |-> [Scene0 EXCEPT !.key = "CaveScene",
                                              !._props = Levels["CaveScene"],
                                              !.interactables = DOMAIN CaveInteractions],
                                 hist |-> Hist0])} :
        GameState = W.GameState /\ scene = W.scene

SpecCave == InitCave /\ [][NextCave]_vars

NextHall ==
  \/ \E id \in DOMAIN HallInteractions : Interact(id)
  \/ Reenter
  \/ Tick

InitHall ==
  /\ timers = <<>>
  /\ dialogue = DialogueBox0
  /\ GameState = GameState0
  /\ scene = [Scene0 EXCEPT !.key = "HallScene", !._props = Levels["HallScene"],
                            !.interactables = DOMAIN HallInteractions]
  /\ hist = Hist0

SpecHall == InitHall /\ [][NextHall]_vars

-----------------------------------------------------------------------------
(* The ledge of the fifth level: the player starts next to it, on one of the   *)
(* two axes through its centre, and walks along that axis a pixel or two per   *)
(* frame, into the ledge, out of it and past it.                               *)

Ledge == CliffInteractions["ledge"]

StepSizes == {1, 2}

\* the positions on the axes through the centre of the ledge
OnAxis(pos) == pos.x = ZoneCenter(Ledge).x \/ pos.y = ZoneCenter(Ledge).y

\* outside the ledge and at most a step away from it
CliffStarts ==
  {pos \in [x : 0..40, y : 0..40] :
     /\ OnAxis(pos)
     /\ ~InsideZone(pos, Ledge)
     /\ \E d \in StepSizes, sx \in {-1, 0, 1}, sy \in {-1, 0, 1} :
          /\ (sx = 0) # (sy = 0)
          /\ InsideZone([x |-> pos.x + sx * d, y |-> pos.y + sy * d], Ledge)}

\* a frame that finds the player d pixels further along an axis
Walk(d, sx, sy) ==
  LET to == [x |-> scene.player.x + sx * d, y |-> scene.player.y + sy * d] IN
  /\ hist.moves < MaxMoves
  /\ (sx = 0) # (sy = 0)
  /\ OnAxis(to)
  /\ to.x \in 0..40 /\ to.y \in 0..40
  /\ Becomes(Call([World EXCEPT !.scene.player = to, !.hist.moves = @ + 1],
                  "baseUpdateFrame", <<>>))

NextPush ==
  \/ \E d \in StepSizes, sx \in {-1, 0, 1}, sy \in {-1, 0, 1} : Walk(d, sx, sy)
  \/ Tick

InitPush ==
  /\ timers = <<>>
  /\ dialogue = DialogueBox0
  /\ GameState = GameState0
  /\ \E pos \in CliffStarts :
       scene = [Scene0 EXCEPT !.key = "CliffScene", !._props = Levels["CliffScene"],
                              !.interactables = DOMAIN CliffInteractions,
                              !.player = pos, !._prevPlayerPos = pos]
  /\ hist = Hist0

SpecPush == InitPush /\ [][NextPush]_vars

-----------------------------------------------------------------------------
(* Properties of the runner and of the scene *)

\* the step the runner is on
CurrentStep ==
  IF dialogue.active /\ dialogue.index >= 0 /\ dialogue.index < Len(dialogue.script)
    THEN dialogue.script[dialogue.index + 1]
    ELSE [type |-> "none"]

\* the index at which _runCurrentStep comes to rest when resumed at index i:
\* action steps and steps without a type are passed at once
RECURSIVE Settle(_, _)
Settle(script, i) ==
  IF i < 0 \/ i >= Len(script) THEN i
  ELSE IF script[i + 1].type \in {"say", "pause", "choice", "end"} THEN i
  ELSE Settle(script, i + 1)

OnceIds == {id \in InteractionIds : IsTrue(PropsOf(id), "once")}

\* C1: a once=true interaction pressed more than once, in any interleaving with
\* frames, the presfx delay timer and the completion of its dialogue, has its
\* effects applied once: what it gives is held once, as after a single run
C1_OnceAppliedOnce ==
  \A id \in OnceIds :
    /\ Count(hist.applied, id) <= 1
    /\ \A n \in 1..Len(Csv(PropsOf(id), "giveitem")) :
         Count(GameState.inventory, Csv(PropsOf(id), "giveitem")[n]) <= 1

ChoiceHelpKey == "__choicehs__" \o scene.key \o "__npc__1"
LineHelpKey == LineOnceFlag(World, "bush", "dialogue", "addhelp", "")

\* C2: every effect behind a once flag (giveItemOnce, takeItemOnce, the help score
\* of a choice, the addHelp / giveOnce of a line, setMusicOnce) is applied at most
\* once per flag key over all runs and re-entries of the scene; the help score is
\* what the guarded sources gave, each once
C2_GuardedEffectsOnce ==
  /\ \A k \in DOMAIN hist.once : hist.once[k] <= 1
  /\ GameState.helpScore = 10 * Count(hist.once, ChoiceHelpKey) + 5 * Count(hist.once, LineHelpKey)
  /\ Count(GameState.inventory, "berry") <= 1
  /\ Count(GameState.inventory, "coin") <= 1

\* the choice's +10 was asked for again after a re-entry of the scene and was refused
C2_SecondHelpRefused ==
  /\ ChoiceHelpKey \in hist.blocked
  /\ hist.entries >= 1
  /\ GameState.helpScore >= 10

\* C3: once a run has reached an end step or run off its script, the runner is
\* inactive, its key handlers are unbound, and the run's onComplete (when it has
\* one) has been invoked exactly once, no other run's
C3_EndCompletesOnce ==
  hist.endReached =>
    /\ ~dialogue.active
    /\ ~dialogue.keyHandlersBound
    /\ hist.completed = (IF hist.withCb THEN 1 ELSE 0)
    /\ ~hist.foreign

\* a run with an onComplete has ended on its end step
C3_RunEnded ==
  /\ hist.endReached
  /\ hist.withCb
  /\ hist.completed = 1
  /\ dialogue.index < Len(dialogue.script)

\* C4: a choice step with options whose prompt is no longer being typed is in
\* choice selection
C4_ChoiceEntered ==
  (/\ dialogue.active
   /\ CurrentStep.type = "choice"
   /\ ~dialogue.isTyping) => dialogue.inChoice

OnPause ==
  /\ dialogue.active
  /\ CurrentStep.type = "pause"
  /\ \E k \in 1..Len(timers) : timers[k].fn = "pause" /\ timers[k].at > 0

\* C5: while the runner is on a pause step whose timer has not expired, a key
\* press changes nothing of the runner
C5_PauseTakesNoInput ==
  [][(OnPause /\ (KeyZ \/ KeyUp \/ KeyDown)) =>
       /\ dialogue'.index = dialogue.index
       /\ dialogue'.nextInputReadyAt = dialogue.nextInputReadyAt]_vars

\* C6: the option selected by a confirm had its onSelect called before the jump,
\* and the runner resumed at the option's next when that is a number, else at the
\* index of the choice step + 1
C6_OptionJump ==
  hist.lastChosen.valid =>
    /\ hist.lastChosen.onSelectAt \in {-1, hist.lastChosen.indexBefore}
    /\ hist.lastChosen.resumedAt =
         (IF hist.lastChosen.option.hasNext THEN hist.lastChosen.option.next
          ELSE hist.lastChosen.choiceAt + 1)

C7_OnConfirm ==
  (KeyZ /\ dialogue.active /\ _canAcceptInput(World)) =>
    /\ dialogue.isTyping =>
         /\ dialogue'.index = dialogue.index
         /\ dialogue'.active
         /\ ~dialogue'.isTyping
         /\ dialogue'.visibleText = dialogue.fullText
    /\ (~dialogue.isTyping /\ ~dialogue.inChoice /\ CurrentStep.type = "say") =>
         dialogue'.index = Settle(dialogue.script, dialogue.index + 1)

\* C7: a confirm accepted while text is being typed shows the whole text and
\* leaves the index where it is; a confirm accepted once a line is fully shown
\* moves the index on by one step (the runner then passes any action steps)
C7_SnapThenAdvance == [][C7_OnConfirm]_vars

\* a confirm snapped a line being typed and the next accepted confirm advanced
C7_SnappedThenAdvanced ==
  /\ dialogue.script = ScriptTalk
  /\ hist.prevZ = "snap"
  /\ hist.lastZ = "advance"
  /\ dialogue.index = 2

\* C8: no input of any kind is accepted before the cooldown of the last accepted
\* input has elapsed
C8_NoEarlyInput == hist.early = {}

\* C9: after a stop the runner is inactive with its handlers unbound and no sound
\* tracked; no sound registered through trackSound plays on unless the runner now
\* active owns it; and the world takes no interaction for the 240 ms after
C9_StopCleansUp ==
  /\ ~dialogue.active => ~dialogue.keyHandlersBound /\ dialogue._ownedSounds = {}
  /\ (hist.tracked \cap scene.playing) \subseteq
       (IF dialogue.active THEN dialogue._ownedSounds ELSE {})
  /\ hist.lastStopAt > -stopLockMs => ~canWorldInteract(World)

\* a run that had a tracked sound playing was cancelled, less than 240 ms ago
C9_CancelledWithSound ==
  /\ ~dialogue.active
  /\ ~hist.endReached
  /\ \E snd \in hist.tracked : snd[2] = hist.run
  /\ hist.lastStopAt > -stopLockMs

\* C10: stop() on a runner that is not active, with either callOnComplete,
\* invokes no onComplete and leaves active, typing, choice and index as they are
C10_StopIdempotent ==
  [][\A c \in BOOLEAN :
       (~dialogue.active /\ StopCall(c)) =>
         /\ hist'.completed = hist.completed
         /\ dialogue'.active = dialogue.active
         /\ dialogue'.isTyping = dialogue.isTyping
         /\ dialogue'.inChoice = dialogue.inChoice
         /\ dialogue'.index = dialogue.index]_vars

\* C11: whatever addItem, removeItem and the item effects of an interaction have
\* done, every inventory count is a natural number: a removal of more than is
\* held leaves 0
C11_CountsNatural ==
  \A k \in DOMAIN GameState.inventory : GameState.inventory[k] \in Nat

\* more of an item was removed than was held, and its count is 0
C11_RemovedBelowZero ==
  \E k \in hist.clamped : Has(GameState.inventory, k) /\ GameState.inventory[k] = 0

\* C12: an interaction id that is in GameState.interactions.disabled is in it
\* in every later state
C12_DisabledStays ==
  [][\A id \in InteractionIds :
       isInteractionDisabled(World, id) =>
         (Has(GameState'.interactions.disabled, id)
            /\ GameState'.interactions.disabled[id] = TRUE)]_vars

\* C13: an interaction bound to an NPC that is walking its waypoints is not
\* enabled, whatever the flags and the forced overrides
C13_MovingNpcDisables ==
  \A id \in InteractionIds :
    isSpawnedNpcMoving(World, NpcIdOf(PropsOf(id))) => ~isEnabled(World, id)

FlagIsTrue(f) == Has(GameState.flags, f) /\ GameState.flags[f] = TRUE

\* the rules of the door in the order stated, read off the state
C14_DoorDecision ==
  IF FlagIsTrue("__int_forced_disabled__CityScene__door") THEN FALSE
  ELSE IF Has(GameState.interactions.disabled, "door") THEN FALSE
  ELSE IF FlagIsTrue("__int_forced_enabled__CityScene__door") THEN TRUE
  ELSE IF ~FlagIsTrue("a") THEN FALSE
  ELSE IF ~(FlagIsTrue("b") \/ FlagIsTrue("c")) THEN FALSE
  ELSE IF FlagIsTrue("d") THEN FALSE
  ELSE IF Has(scene._movingNpcById, "Glad") THEN FALSE
  ELSE Count(GameState.interactions.choices, "npc") = 2

\* C14: isEnabled is decided by the first rule that applies, in the order
\* forced-disable flag, disabled set, forced-enable flag, all-of flags, any-of
\* flags, none-of flags, linked NPC moving, required choice index; an
\* interaction without any gating property is enabled unless it is disabled
C14_RuleOrder ==
  /\ isEnabled(World, "door") = C14_DoorDecision
  /\ \A id \in {"gift", "bush", "npc"} :
       isEnabled(World, id) =
         (~FlagIsTrue(_interactionForceDisabledFlag(scene.key, id))
            /\ ~Has(GameState.interactions.disabled, id))

\* the door is force-enabled and in the disabled set: the disabled set decides
C14_DisabledBeatsForcedEnable ==
  /\ FlagIsTrue("__int_forced_enabled__CityScene__door")
  /\ Has(GameState.interactions.disabled, "door")
  /\ FlagIsTrue("a") /\ FlagIsTrue("b") /\ ~FlagIsTrue("d")
  /\ Count(GameState.interactions.choices, "npc") = 2
  /\ ~isEnabled(World, "door")

\* C15: distinct (category, parts) tuples have distinct keys: the once flag of a
\* tuple reads as set only if it was set for that very tuple
C15_KeysDistinct ==
  \A g \in Guards :
    _getAnyFlag(World, KeyOf(g)) = TRUE => g \in hist.guards

\* the length of the run line, line2, ... of a table up to the first missing index
RECURSIVE RunLength(_, _)
RunLength(T, n) ==
  IF n > MaxLines \/ ~Has(T, LineKey(n)) THEN n - 1 ELSE RunLength(T, n + 1)

\* C16: a collector returns the keys (or the non-blank texts) of the run line,
\* line2, ... up to the first missing index and nothing that lies after it, also
\* when the first key itself is the missing one
C16_ContiguousRun ==
  LET m == RunLength(scene.parsed, 1)
      run == [n \in 1..m |-> LineKey(n)]
  IN /\ hist.collected.by = "_getNumberedKeys" => hist.collected.out = run
     /\ hist.collected.by = "_getNumberedPropLines" =>
          hist.collected.out =
            [n \in 1..Len(SelectSeq(run, LAMBDA k : scene.parsed[k] # 0)) |-> 1]

\* C17: on the K-th visit to an interaction that was helped already and has L
\* post-help lines, the script handed to the runner says exactly line K when
\* K <= L and line L when K > L.  The post-help lines of the elder have the
\* texts 1, 2 and 3, and the first one carries a per-line sound.
C17_ProgressiveLine ==
  hist.started.id = "elder" /\ hist.started.mode = "posthelp"
    => hist.started.says = <<Min(hist.started.visit, 3)>>

\* the group of numbered properties under prefix p of the sage is not empty
SageHasLines(p) == Len(_getNumberedKeys(PlazaInteractions["sage"], p)) > 0

\* the post-help group for the choice last recorded for the sage, if that group
\* has lines, else the plain group
SageBase ==
  LET N == Count(GameState.interactions.choices, "sage")
      group == "choice" \o ToString(N) \o "postdialogue"
  IN IF N > 0 /\ SageHasLines(group) THEN group ELSE "postdialogue"

\* the prefixes the companion override may pick in this state
SagePrefixes ==
  LET saga == FlagIsTrue("sagaJoined")
      aloise == FlagIsTrue("aloiseFollowing")
      present == (IF saga THEN {"sagafollower" \o SageBase} ELSE {})
                   \cup (IF aloise THEN {"aloisefollower" \o SageBase} ELSE {})
      singles == {p \in present : SageHasLines(p)}
  IN IF saga /\ aloise /\ SageHasLines("bothfollowers" \o SageBase)
       THEN {"bothfollowers" \o SageBase}
     ELSE IF singles # {} THEN singles
     ELSE {SageBase}

\* C18: when the helped sage is visited, the lines shown are those of the group
\* choice{N}postdialogue if N is the choice last recorded for it and that group
\* has lines, else of postdialogue; the variant for both companions is taken if
\* both are present and it has lines, else the variant of a companion present
\* that has lines, else the group itself.  Visits after leaving and re-entering
\* the level are covered as well.
C18_PostHelpPrefix ==
  [][(hist'.presses = hist.presses + 1 /\ hist'.started.press = hist'.presses
        /\ hist'.started.mode = "posthelp")
       => hist'.started.prefix \in SagePrefixes]_vars

\* after a re-entry, with choice 2 recorded and both companions present, the
\* sage shows the line of the group for both companions and choice 2
C18_BothAfterReentry ==
  /\ hist.entries > 0
  /\ hist.started.mode = "posthelp"
  /\ hist.started.press = hist.presses
  /\ hist.started.prefix = "bothfollowerschoice2postdialogue"
  /\ hist.started.says = <<5>>

\* C19: in sequence mode without looping every visit plays the whole numbered
\* run as one script: each script the troupe (dialogue, dialogue2 with the texts
\* 1 and 2) hands to the runner says both lines, on the first and on later visits.
C19_WholeSequence ==
  hist.started.id = "troupe" /\ hist.started.mode = "sequence"
    => hist.started.says = <<1, 2>>

\* the cooldown window opened by the last deny feedback has not yet elapsed
InDenyWindow == hist.deny.any /\ 0 - hist.deny.lastAt < hist.deny.window

\* C20: entries into deny zones while the cooldown window of the last feedback
\* is open produce no further feedback event, so two entries within the window
\* produce exactly one; entries once no window is open produce one event, also
\* when two zones are entered in the same frame.
C20_DenyCooldown ==
  [][hist'.deny.entries > hist.deny.entries
       => hist'.deny.events = hist.deny.events + (IF InDenyWindow THEN 0 ELSE 1)]_vars

\* an entry within the window went without feedback, and a later entry, after
\* the window, was given feedback again
C20_QuietThenDeniedAgain ==
  /\ hist.deny.suppressed >= 1
  /\ hist.deny.events >= 2
  /\ hist.deny.lastDenied

\* C21: in rewind mode, after the frame in which an entry into a deny zone is
\* detected and answered, the player is no longer inside that zone.
C21_RewindLeavesZone ==
  [][hist'.deny.events > hist.deny.events
       => ~InsideZone(scene'.player, HarborInteractions[hist'.deny.zone])]_vars

\* the point 12 pixels from the entry position e, straight away from the centre
\* of the ledge, for an entry position on an axis through the centre
TwelveOutward(e) ==
  LET c == ZoneCenter(Ledge) IN
  IF e.y = c.y /\ e.x < c.x THEN [x |-> e.x - 12, y |-> e.y]
  ELSE IF e.y = c.y /\ e.x > c.x THEN [x |-> e.x + 12, y |-> e.y]
  ELSE IF e.x = c.x /\ e.y < c.y THEN [x |-> e.x, y |-> e.y - 12]
  ELSE [x |-> e.x, y |-> e.y + 12]

\* C22: a player who enters the ledge (deny, denyMode push, denyPush 12) from
\* outside along an axis and is denied ends the frame exactly 12 pixels from
\* the entry position, on the side away from the centre of the ledge.
C22_PushedTwelve ==
  [][hist'.deny.events > hist.deny.events
       => scene'.player = TwelveOutward(scene'._prevPlayerPos)]_vars

\* the player came in from the left, was found at (17, 20) and put at (5, 20)
C22_PushedLeft ==
  /\ hist.deny.lastDenied
  /\ hist.deny.zone = "ledge"
  /\ scene._prevPlayerPos = [x |-> 17, y |-> 20]
  /\ scene.player = [x |-> 5, y |-> 20]

(* ----- A walking NPC ----- *)

\* speeds of a move effect, in pixels per second: whole pixels per frame
WalkSpeeds == {20, 40, 60}

\* where the map of the level spawns Glad: above the second waypoint, at
\* several distances from it
GladSpawns == {[x |-> 40, y |-> sy, vx |-> 0, vy |-> 0] : sy \in {20, 25, 31, 34}}

GladPath == <<"npc_glad_wp1", "npc_glad_wp2", "npc_glad_wp3">>

\* a choice effect with choiceNMoveToPoint; the interaction of a walking NPC is
\* not enabled, so an effect finds the NPC at rest
MoveToPoint(sp) ==
  /\ ~isSpawnedNpcMoving(World, "Glad")
  /\ Becomes(moveSpawnedNpcToPoint(World, "Glad", "npc_glad_wp2", sp))

\* a choice effect with choiceNWaypoints; every leg of the path is along an axis
MoveAlong(sp) ==
  /\ ~isSpawnedNpcMoving(World, "Glad")
  /\ scene.npcs["Glad"].x = Points["npc_glad_wp1"].x
  /\ Becomes(moveSpawnedNpcAlongWaypoints(World, "Glad", GladPath, sp))

\* a step of the game loop: the physics world, then update() of the scene
Frame ==
  \E V \in {physicsStep(World)} :
    \E W \in {Call(V, "baseUpdateFrame", <<>>)} : Becomes(W)

NextWalk ==
  \/ \E sp \in WalkSpeeds : MoveToPoint(sp)
  \/ \E sp \in WalkSpeeds : MoveAlong(sp)
  \/ Frame
  \/ Reenter

InitWalk ==
  /\ timers = <<>>
  /\ dialogue = DialogueBox0
  /\ GameState = GameState0
  /\ \E g \in GladSpawns : scene = [Scene0 EXCEPT !.npcs["Glad"] = g]
  /\ hist = Hist0

SpecWalk == InitWalk /\ [][NextWalk]_vars

\* update() runs on every step of the game loop
SpecWalkFair == SpecWalk /\ WF_vars(Frame)

(* C23: when the actor leaves a zone, every layer has again the visibility and
   the persisted hidden state it had before the actor entered, the sound of the
   zone no longer plays and the ducking reason of the zone is gone. *)
C23_ExitRestores ==
  [][("cave" \in scene._triggerInside /\ "cave" \notin scene'._triggerInside)
       => /\ scene'.layers = hist.entered["cave"].layers
          /\ \A l \in DOMAIN scene'.layers :
               isLayerHidden([GameState |-> GameState'], "CaveScene", l)
                 = isLayerHidden([GameState |-> [hiddenLayers |-> hist.entered["cave"].hidden]],
                               "CaveScene", l)
          /\ ~Has(scene'._zoneAudioById, "cave")
          /\ ~Has(scene'._duckReasons, "__zone_cave")]_vars

GladAt(sc, point) == sc.npcs["Glad"].x = point.x /\ sc.npcs["Glad"].y = point.y

\* Glad walks to a single waypoint
SingleWalk(sc) ==
  Has(sc._movingNpcById, "Glad") /\ Len(sc._movingNpcById["Glad"].points) = 1

(* C24: an NPC sent to a single waypoint gets there: when its entry of the
   movement states goes, the NPC stands exactly on the waypoint; the step that
   brings it onto the waypoint is the step that removes the entry; and with
   the frames running the entry does go. *)
C24_ArrivesExactly ==
  /\ [][(SingleWalk(scene) /\ ~Has(scene'._movingNpcById, "Glad"))
          => GladAt(scene', scene._movingNpcById["Glad"].points[1])]_vars
  /\ [][(SingleWalk(scene) /\ ~GladAt(scene, scene._movingNpcById["Glad"].points[1])
                           /\ GladAt(scene', scene._movingNpcById["Glad"].points[1]))
          => ~isSpawnedNpcMoving([scene |-> scene'], "Glad")]_vars
  /\ (SingleWalk(scene)
        ~> (~Has(scene._movingNpcById, "Glad") /\ GladAt(scene, Points["npc_glad_wp2"])))

\* Glad has walked the 20 pixels from its spawn point and stands on the waypoint
C24_StandsOnWaypoint ==
  /\ ~Has(scene._movingNpcById, "Glad")
  /\ scene.npcs["Glad"] = [x |-> 40, y |-> 40, vx |-> 0, vy |-> 0]
  /\ hist.entries = 0
  /\ GameState.npcPos = EmptyMap

(* C27: when the level is left and entered again after a move effect, also
   while the NPC is on its way, the NPC stands on the last waypoint of the
   movement. *)
C27_ReentryAtFinalWaypoint ==
  [][(hist'.entries > hist.entries /\ Has(scene._movingNpcById, "Glad"))
       => LET points == scene._movingNpcById["Glad"].points
          IN GladAt(scene', points[Len(points)])]_vars

\* every layer object shows what the record of hidden layers says
LayersFollowRecord ==
  \A l \in DOMAIN scene.layers :
    scene.layers[l] = ~isLayerHidden(World, scene.key, l)

(* C25: whatever effects of interactions, of choices and of zones have shown or
   hidden layers, and however often the level was entered again, every layer
   of the scene is visible exactly when the record of hidden layers does not
   say hidden; an entry builds the layers as they were when the level was left,
   so a layer that starts hidden is forced hidden by the first build only. *)
C25_VisibilityIsTheRecord ==
  /\ []LayersFollowRecord
  /\ [][hist'.entries > hist.entries => scene'.layers = scene.layers]_vars

\* the layer that starts hidden was shown by the cave, and is still shown after
\* the level was entered again
C25_ShownAfterReentry ==
  /\ hist.entries = 1
  /\ scene.layers = [Roof |-> FALSE, Inside |-> TRUE]
  /\ scene.player = Scene0.player

(* C26: a collider removed by id through an effect is gone at once and stays
   gone, whatever follows and however often the level is entered again; a
   removal by an id that no collider has leaves no flag behind. *)
C26_RemovedStaysRemoved ==
  /\ []~Has(GameState.flags, _colliderRemovedFlag("CaveScene", "ghost"))
  /\ [][Count(hist'.applied, "lever") > Count(hist.applied, "lever")
          => "rock" \notin scene'._colliderById]_vars
  /\ [][\A c \in {"rock", "gate"} :
          c \notin scene._colliderById => c \notin scene'._colliderById]_vars

\* the lever has removed the rock, the level was entered again, the rock is still
\* gone and the gate still stands
C26_RockGoneAfterReentry ==
  /\ hist.entries = 1
  /\ Count(hist.applied, "lever") > 0
  /\ scene._colliderById = {"gate"}

(* C28: the effects of an interaction with setMusic = X leave X as the current
   track of the scene, whatever was played or persisted before, and with
   setMusicPersist the persisted track of the level is X. *)
C28_SetMusicSwitches ==
  [][/\ Count(hist'.applied, "radio") > Count(hist.applied, "radio")
          => scene'._sceneMusicKey = "jazz"
     /\ Count(hist'.applied, "organ") > Count(hist.applied, "organ")
          => /\ scene'._sceneMusicKey = "hymn"
             /\ Has(GameState'.flags, "__sceneMusicOverride")
             /\ Has(GameState'.flags["__sceneMusicOverride"], "HallScene")
             /\ GameState'.flags["__sceneMusicOverride"]["HallScene"] = "hymn"]_vars

\* a key is trimmed, lowercased and not empty
NormalKeys == {Text(n) : n \in {n \in RawNames : n # <<>> /\ trim(n) = n /\ toLowerCase(n) = n}}

\* the entries of an array that an object can hold as well: all named, no name twice
AsObject(obj) == [properties |-> [kind |-> "object", items |-> obj.properties.items]]

(* C29: parseProps gives a map for every input; its keys are trimmed,
   lowercased and not empty; names that differ in case or in surrounding
   whitespace only share one entry; an array of entries and an object with the
   same entries give the same map; anything else gives the empty map. *)
C29_NormalisedMap ==
  hist.collected.by = "parseProps" =>
    LET raw == scene._tiledObj.properties
        items == raw.items
        named == {i \in 1..Len(items) : items[i].named}
    IN /\ DOMAIN scene.parsed \subseteq NormalKeys
       /\ raw.kind \in {"array", "object"} =>
            DOMAIN scene.parsed
              = {Text(toLowerCase(trim(items[i].name))) : i \in named} \ {""}
       /\ (raw.kind = "array" /\ named = 1..Len(items) /\ DistinctNames(items)) =>
            scene.parsed = parseProps(AsObject(scene._tiledObj))
       /\ raw.kind \notin {"array", "object"} => scene.parsed = EmptyMap

\* " id" and "ID " given as an array: one entry under "id", with the later value
C29_OneEntryForBoth ==
  /\ hist.collected.by = "parseProps"
  /\ scene._tiledObj.properties.kind = "array"
  /\ scene._tiledObj.properties.items
       = << [named |-> TRUE, name |-> <<" ", "i", "d">>, value |-> 1],
            [named |-> TRUE, name |-> <<"I", "D", " ">>, value |-> 2] >>
  /\ scene.parsed = [id |-> 2]

(* C30: the play time never goes back; no step taken while a dialogue is open
   changes it; and a frame of an explore scene without an open dialogue adds
   the length of the frame to it. *)
C30_ClockRunsOutsideDialogue ==
  [][/\ GameState'.realTimeMs >= GameState.realTimeMs
     /\ dialogue.active => GameState'.realTimeMs = GameState.realTimeMs
     /\ (hist'.moves > hist.moves /\ ~dialogue.active)
          => GameState'.realTimeMs = GameState.realTimeMs + scene'.loopDelta]_vars

\* a frame of 33 ms has run while the dialogue of the fence was open: the play
\* time is still the 16 ms of the frame before
C30_FrozenByDialogue ==
  /\ dialogue.active
  /\ scene.loopDelta = 33
  /\ GameState.realTimeMs = 16
  /\ hist.moves >= 2

-----------------------------------------------------------------------------
(* Callbacks that throw: scripts whose action steps and onSelect callbacks     *)
(* throw, and the same scripts with callbacks that return.                     *)

Throws == [kind |-> "throws", id |-> "", i |-> 0]
Crash == [op |-> "throws", name |-> "crash", persist |-> FALSE]

ScriptThrowAction ==
  << ActionStep(Crash), Say(1), ActionStep(Crash), Say(2), ActionStep(Crash), EndStep >>
ScriptThrowOption ==
  << Choice(1, << OptNext(3, Throws), OptFall(Throws), OptNext(3, NoSelect) >>),
     Say(2), EndStep, Say(3), ActionStep(Crash) >>
ScriptThrowStep ==
  << Say(1),
     ChoiceWith(1, << OptFall([kind |-> "probe", id |-> "", i |-> 0]), OptNext(4, NoSelect) >>,
                Throws),
     Say(2), EndStep, Say(3), EndStep >>

ThrowScripts == {ScriptThrowAction, ScriptThrowOption, ScriptThrowStep}

NextThrow ==
  \/ \E s \in ThrowScripts : Start(s, Probe)
  \/ KeyZ
  \/ KeyUp
  \/ KeyDown
  \/ KeyEsc
  \/ TypingTick
  \/ Tick

SpecThrow == Init /\ [][NextThrow]_vars

\* the same callback, returning instead of throwing
ReturningCb(fn) == IF fn.kind = "throws" THEN [fn EXCEPT !.kind = "returns"] ELSE fn
ReturningOptions(options) ==
  [k \in 1..Len(options) |-> [options[k] EXCEPT !.onSelect = ReturningCb(@)]]
ReturningStep(step) ==
  CASE step.type = "action" ->
         [step EXCEPT !.run.op = IF @ = "throws" THEN "plays" ELSE @]
    [] step.type = "choice" /\ "onSelect" \in DOMAIN step ->
         [step EXCEPT !.options = ReturningOptions(@), !.onSelect = ReturningCb(@)]
    [] step.type = "choice" -> [step EXCEPT !.options = ReturningOptions(@)]
    [] OTHER -> step
ReturningScript(script) == [k \in 1..Len(script) |-> ReturningStep(script[k])]
\* the runner with every throwing callback it holds replaced by a returning one
Returning(d) ==
  [d EXCEPT !.script = ReturningScript(@),
            !.choiceOptions = ReturningOptions(@),
            !.choiceStepOnSelect = ReturningCb(@),
            !.typingEvent.options = ReturningOptions(@)]

\* the runner after the handler `name` ran in the current state, and after it
\* ran in the state whose callbacks return
AsIfReturned(name, args) ==
  \E A \in {Call(World, name, args)} :
    \E B \in {Call([World EXCEPT !.dialogue = Returning(@)], name, args)} :
      /\ ~A.hist.exc
      /\ Returning(A.dialogue) = B.dialogue
      /\ A.timers = B.timers

(* C31: a callback of an action step or an onSelect callback that throws never
   aborts the playback: no exception leaves a handler of the runner, and after
   every handler (a start, a confirm, the typing callback) the runner is in the
   state, active or not, at the index and in the step, it is in when the same
   callbacks return normally. *)
C31_ThrowNeverAborts ==
  /\ ~hist.exc
  /\ AsIfReturned("_onZ", <<>>)
  /\ AsIfReturned("typingCallback", <<>>)
  /\ \A s \in ThrowScripts :
       \E A \in {Call(World, "start", <<s, Probe>>)} :
         \E B \in {Call(World, "start", <<ReturningScript(s), Probe>>)} :
           ~A.hist.exc /\ Returning(A.dialogue) = B.dialogue

\* a throwing onSelect was caught and the runner types the say step at the
\* jump target of the option
C31_CaughtAndJumped ==
  /\ hist.caught
  /\ dialogue.active
  /\ dialogue.script = ScriptThrowOption
  /\ hist.lastChosen.valid /\ hist.lastChosen.option = OptNext(3, Throws)
  /\ dialogue.index = 3 /\ dialogue.fullText = 3

-----------------------------------------------------------------------------
(* The eighth level: zones that fire once, and a zone behind a flag.  The     *)
(* actor walks between the spawn point and the three zones.                    *)

TunnelPositions ==
  {Scene0.player, [x |-> 14, y |-> 4], [x |-> 24, y |-> 4], [x |-> 34, y |-> 4]}

NextTunnel ==
  \/ \E to \in TunnelPositions : Move(to)
  \/ KeyZ
  \/ KeyEsc
  \/ TypingTick
  \/ Tick

InitTunnel ==
  /\ timers = <<>>
  /\ dialogue = DialogueBox0
  /\ hist = Hist0
  /\ \E W \in {_buildFromTiled([now |-> 0, timers |-> <<>>, dialogue |-> DialogueBox0,
                                 GameState |-> GameState0,
                                 scene |-> [Scene0 EXCEPT !.key = "TunnelScene",
                                              !._props = Levels["TunnelScene"],
                                              !.interactables = DOMAIN TunnelInteractions],
                                 hist |-> Hist0])} :
        GameState = W.GameState /\ scene = W.scene

SpecTunnel == InitTunnel /\ [][NextTunnel]_vars

\* the frame of this step finds the actor inside the zone id for the first time
Enters(id) == id \notin scene._triggerInside /\ id \in scene'._triggerInside

(* C32: a zone with triggerOnce (or once) is disabled by its first entry, and an
   entry into a zone that is disabled changes nothing: not the layers or the
   record of hidden layers, not the zone audio, not the deny feedback, not the
   dialogue, and no effect of the zone's script is applied. *)
C32_OnceZoneSilent ==
  [][\A id \in {"arch", "bar"} :
       /\ Enters(id) => isInteractionDisabled([GameState |-> GameState'], id)
       /\ (Enters(id) /\ isInteractionDisabled(World, id)) =>
             /\ scene'.layers = scene.layers
             /\ GameState'.hiddenLayers = GameState.hiddenLayers
             /\ scene'._zoneAudioById = scene._zoneAudioById
             /\ scene'.playing = scene.playing
             /\ hist'.deny = hist.deny
             /\ dialogue'.active = dialogue.active
             /\ GameState'.inventory = GameState.inventory]_vars

-----------------------------------------------------------------------------
(* The ninth level: an interaction behind a required item.                    *)

NextVault ==
  \/ \E id \in DOMAIN VaultInteractions : Interact(id)
  \/ KeyZ
  \/ KeyEsc
  \/ TypingTick
  \/ Reenter
  \/ Tick

InitVault ==
  /\ timers = <<>>
  /\ dialogue = DialogueBox0
  /\ GameState = GameState0
  /\ scene = [Scene0 EXCEPT !.key = "VaultScene", !._props = Levels["VaultScene"],
                            !.interactables = DOMAIN VaultInteractions]
  /\ hist = Hist0

SpecVault == InitVault /\ [][NextVault]_vars

\* this step hands the deny line of the vault to the runner
VaultDenied ==
  /\ hist'.run # hist.run
  /\ dialogue'.active
  /\ dialogue'.script = <<Say(VaultInteractions.vault.denydialogue), EndStep>>

(* C33: once the vault has passed its requiresItem check (it has been run, so
   its use count is above 0), no step shows its deny line again, with or
   without the key in the inventory and across re-entries of the level; and a
   step that shows the deny line leaves the inventory, the scores, the flags,
   the use counts, the choices and the disabled set as they were. *)
C33_PassedOnceNeverDenied ==
  [][VaultDenied =>
       /\ Count(GameState.interactions.counts, "vault") = 0
       /\ GameState'.inventory = GameState.inventory
       /\ GameState'.score = GameState.score
       /\ GameState'.helpScore = GameState.helpScore
       /\ GameState'.flags = GameState.flags
       /\ GameState'.interactions = GameState.interactions
       /\ scene'.interactables = scene.interactables]_vars

\* the vault was run a second time, after it had used the key up
C33_RunAgainWithoutKey ==
  /\ Count(GameState.interactions.counts, "vault") = 2
  /\ ~hasItem(World, "key")
  /\ dialogue.active
  /\ dialogue.script # <<Say(VaultInteractions.vault.denydialogue), EndStep>>

(* C34: a pause timer that fires changes the runner only if the run that
   scheduled it is still the current one, active and on the pause step that
   scheduled it; a timer left over from a cancelled or replaced run, or from a
   pause the run has already left, changes nothing. *)
C34_PauseTimerOwnStep ==
  [][\A k \in 1..Len(timers) :
       (FirePause(k) /\ dialogue' # dialogue) =>
          /\ dialogue.active
          /\ timers[k].run = hist.run
          /\ timers[k].index = dialogue.index]_vars

-----------------------------------------------------------------------------
(* The effects of a choice: the option selected is remembered in              *)
(* _pendingChoiceEffect and applied by the completion callback of the choice  *)
(* dialogue.                                                                  *)

\* the record of the last choice of the interaction id, 0 when there is none
LastChoice(G, id) ==
  IF Has(G.interactions.choices, id) THEN G.interactions.choices[id] ELSE 0

\* this step applied the effects of a choice
ChoiceApplied == hist'.choiceFx.on /\ (~hist.choiceFx.on \/ hist'.run # hist.run)

\* C35: the effects of a choice are applied only in the step that completes the
\* dialogue in which the option was selected (the run reached its end step and
\* its own completion callback ran), and for that interaction and that option;
\* a step that applies none leaves the record of the last choices alone, so the
\* selection of a cancelled dialogue is not applied by another dialogue
C35_ChoiceEffectsAtOwnCompletion ==
  [][/\ ChoiceApplied =>
          /\ dialogue.active /\ ~dialogue'.active
          /\ hist'.endReached
          /\ hist'.completed = hist.completed + 1 /\ ~hist'.foreign
          /\ hist'.run = hist.run
          /\ hist'.choiceFx.own
          /\ hist'.lastChosen.valid
          /\ hist'.lastChosen.option.onSelect
                = [kind |-> "pending", id |-> hist'.choiceFx.id, i |-> hist'.choiceFx.i]
          /\ LastChoice(GameState', hist'.choiceFx.id) = hist'.choiceFx.i
          /\ ~scene'._pendingChoiceEffect.on
     /\ ~ChoiceApplied =>
          GameState'.interactions.choices = GameState.interactions.choices]_vars

\* the selection of a cancelled dialogue is still pending after a later dialogue
\* ran to its end and its completion callback was called
C35_CancelledSelectionOutlived ==
  /\ scene._pendingChoiceEffect.on /\ ~dialogue.active
  /\ ~hist.selOwn
  /\ hist.endReached /\ hist.completed = 1

-----------------------------------------------------------------------------
(* The tenth level: interactions that duck the music while their dialogue is  *)
(* open.                                                                      *)

NextStage ==
  \/ \E id \in DOMAIN StageInteractions : Interact(id)
  \/ KeyZ
  \/ KeyEsc
  \/ TypingTick
  \/ \E k \in 1..Len(timers) : FireRunMain(k)
  \/ Reenter
  \/ Tick

InitStage ==
  /\ timers = <<>>
  /\ dialogue = DialogueBox0
  /\ GameState = GameState0
  /\ scene = [Scene0 EXCEPT !.key = "StageScene", !._props = Levels["StageScene"],
                            !.interactables = DOMAIN StageInteractions]
  /\ hist = Hist0

SpecStage == InitStage /\ [][NextStage]_vars

\* C36: whenever no dialogue is open the duck stack is empty (the volume of the
\* music is then the one it had before the duck): every duck pushed when the
\* dialogue of an interaction starts is popped when that dialogue ends, by its
\* end step, by ESC or by another dialogue replacing it
C36_NoDuckWithoutDialogue ==
  ~dialogue.active => scene._musicDuckStack = <<>>

-----------------------------------------------------------------------------
(* Interactions that are not enabled.                                         *)

\* this step ran the script of the interaction id, or applied its effects
RanOrApplied(id) ==
  \/ Count(GameState'.interactions.counts, id) > Count(GameState.interactions.counts, id)
  \/ Count(hist'.applied, id) > Count(hist.applied, id)

\* C37: an interaction whose isEnabled() is false at the moment it would be
\* run never has its script run nor its effects applied, whether it is run by
\* the interact key or fired by the actor walking into its zone
C37_DisabledNeverRuns ==
  [][\A id \in InteractionIds :
       (~dialogue.active /\ RanOrApplied(id)) => isEnabled(World, id)]_vars

-----------------------------------------------------------------------------
(* The eleventh level: zone audio with a fade-out.                            *)

ChapelPositions ==
  {Scene0.player, [x |-> 14, y |-> 4], [x |-> 24, y |-> 4]}

\* the last callback of the fade timer of a zone comes due
FireZoneFade(k) ==
  /\ k \in 1..Len(timers)
  /\ timers[k].at <= 0
  /\ timers[k].fn = "zoneFade"
  /\ Becomes(zoneFadeEnd([World EXCEPT !.timers = RemoveAt(@, k)],
                          timers[k].id, timers[k].useIndex))

NextChapel ==
  \/ \E to \in ChapelPositions : Move(to)
  \/ \E k \in 1..Len(timers) : FireZoneFade(k)
  \/ Tick

InitChapel ==
  /\ timers = <<>>
  /\ dialogue = DialogueBox0
  /\ GameState = GameState0
  /\ scene = [Scene0 EXCEPT !.key = "ChapelScene", !._props = Levels["ChapelScene"],
                            !.interactables = DOMAIN ChapelInteractions]
  /\ hist = Hist0

SpecChapel == InitChapel /\ [][NextChapel]_vars

\* the zone has zone audio (the sounds named are loaded)
HasZoneAudio(props) ==
  Str(props, "zonesfx") # "" \/ Str(props, "zonemusic") # "" \/ Str(props, "zoneambience") # ""

\* C38: after every frame in which the zones are evaluated, every zone with zone
\* audio that the actor stands in has a playing handle in _zoneAudioById, however
\* leaving and entering again are timed, also a re-entry during the fade-out
C38_ZoneAudioWhileInside ==
  [][(hist'.moves > hist.moves /\ canWorldInteract(World)) =>
       \A id \in InteractionIds :
         (HasZoneAudio(PropsOf(id)) /\ InsideZone(scene'.player, PropsOf(id)))
           => /\ Has(scene'._zoneAudioById, id)
              /\ scene'._zoneAudioById[id] \in scene'.playing]_vars

-----------------------------------------------------------------------------
(* The twelfth level: effects that force interactions disabled or enabled.    *)

NextLobby ==
  \/ \E id \in DOMAIN LobbyInteractions : Interact(id)
  \/ Reenter
  \/ Tick

InitLobby ==
  /\ timers = <<>>
  /\ dialogue = DialogueBox0
  /\ GameState = GameState0
  /\ scene = [Scene0 EXCEPT !.key = "LobbyScene", !._props = Levels["LobbyScene"],
                            !.interactables = DOMAIN LobbyInteractions]
  /\ hist = Hist0

SpecLobby == InitLobby /\ [][NextLobby]_vars

\* the (scene, id) pairs of the levels
ScenePairs == {<<k, id>> : k \in DOMAIN Levels, id \in {"lamp", "organ", "lock", "key", "switch"}}

\* C39: for every (scene, id) the forced-disabled and the forced-enabled flag
\* are never both true, and after any sequence of disableInteractions,
\* enableInteractions and disableSelf effects the flag that is set is the one of
\* the most recent effect on that pair (none where no effect has been applied)
C39_ForcedFlagsExclusive ==
  \A p \in ScenePairs :
    LET dis == _isInteractionForcedDisabled(World, p[1], p[2])
        en == _isInteractionForcedEnabled(World, p[1], p[2])
        last == Str(hist.forced, ForcedKey(p[1], p[2]))
    IN /\ ~(dis /\ en)
       /\ dis <=> last = "disabled"
       /\ en <=> last = "enabled"

\* the lamp disabled itself after the key had enabled it, and the organ of the
\* other level is enabled after having been disabled
C39_DisabledAfterEnabled ==
  /\ Str(hist.forced, ForcedKey("LobbyScene", "lamp")) = "disabled"
  /\ Str(hist.forced, ForcedKey("HallScene", "organ")) = "enabled"
  /\ Count(hist.applied, "lamp") > 0 /\ Count(hist.applied, "key") > 0
  /\ Count(hist.applied, "lock") > 0
  /\ _getAnyFlag(World, _interactionForceEnabledFlag("LobbyScene", "lamp")) = FALSE

-----------------------------------------------------------------------------
(* The end of a walk.                                                         *)

\* the door is bound to Glad (npcId); this is its isEnabled() with the flags
\* and the choice it also asks for in place, so that only the walk decides
DoorEnabled ==
  isEnabled([World EXCEPT !.GameState.flags = [a |-> TRUE, b |-> TRUE],
                          !.GameState.interactions.choices = [npc |-> 2]], "door")

\* C40: with the frames running, every walk started by
\* moveSpawnedNpcAlongWaypoints ends: the movement state of the NPC goes and the
\* interactions bound to the NPC, which are not enabled while it walks, are
\* enabled again; also when the level is left and entered again on the way
C40_WalkEnds ==
  /\ [](isSpawnedNpcMoving(World, "Glad") => ~DoorEnabled)
  /\ (isSpawnedNpcMoving(World, "Glad")
        ~> (~Has(scene._movingNpcById, "Glad") /\ DoorEnabled))

\* the level was left while Glad was between two waypoints of the path and
\* entered again, and Glad has reached the last waypoint of the path
C40_ArrivedAfterReentry ==
  /\ hist.entries = 1
  /\ ~Has(scene._movingNpcById, "Glad")
  /\ GladAt(scene, Points["npc_glad_wp3"])
  /\ Has(GameState.npcPos, _npcPosFlag(scene.key, "Glad"))
  /\ GameState.npcPos[_npcPosFlag(scene.key, "Glad")].y
       \in (Points["npc_glad_wp1"].y + 1)..(Points["npc_glad_wp2"].y - 1)
====
